---- MODULE Spec2Model ----
(***************************************************************************)
(* A model of the C parser of pycparser/c_parser.py (class CParser) and    *)
(* pycparser/plyparser.py (class PLYParser).                               *)
(*                                                                         *)
(* Spec models one CParser instance: its construction, parse() calls, the  *)
(* token requests of the LR engine and the grammar productions (p_*        *)
(* methods) of a subset of the grammar: declarations, function             *)
(* definitions, K&R parameter lists, compound statements and expression    *)
(* statements.  Values on the parser stack are the Python values the       *)
(* productions build, graph bookkeeping (ref strings, the global counter)  *)
(* included.                                                               *)
(***************************************************************************)
EXTENDS Integers, Sequences, FiniteSets, TLC

VARIABLES
    _scope_stack,          \* CParser._scope_stack: list of dicts name -> bool
    _last_yielded_token,   \* CParser._last_yielded_token
    counter,               \* module global `counter` of c_parser.py
    tmp,                   \* module global `tmp` of plyparser.py
    graph,                 \* self.graph: number of nodes added to the pydot graph
    clex,                  \* the lexer: filename, text, position, last_token
    symstack,              \* the LR engine's symbol stack (symbol, value, lineno)
    lookahead,             \* the LR engine's lookahead token
    pc,                    \* "idle" between parse calls, "parsing" inside one
    outcome,               \* what the last finished parse call returned or raised
    trace,                 \* history: the tokens the lexer issued in this call
    first,                 \* history: text, outcome and scope depth at the end of
                           \* the first parse call
    calls,                 \* history: number of parse calls made so far
    objects                \* the c_ast nodes of a declarator that is built in place

vars == << _scope_stack, _last_yielded_token, counter, tmp, graph, clex,
           symstack, lookahead, pc, outcome, trace, first, calls, objects >>

(***************************************************************************)
(* Bounds of the model.                                                    *)
(***************************************************************************)
MaxParses == 2        \* parse calls made on the one parser instance
MaxDeclarators == 3   \* declarators of one declaration
MaxStars == 1         \* stars before a declarator of a declarator list
MaxPointers == 2      \* stars of a qualified pointer prefix
MaxSuffixes == 2      \* array and function suffixes of a direct declarator
MaxScopes == 3        \* scopes on the stack when the tracker is driven directly
MaxNodes == 6         \* c_ast nodes of a declarator that is built in place
MaxSpecifiers == 3    \* specifiers of a declaration that is built directly

(***************************************************************************)
(* Python values.                                                          *)
(***************************************************************************)
None == [k |-> "None"]
IsNone(v) == v.k = "None"
NoneName == "<None>"

Str(s) == [k |-> "str", s |-> s]
\* 'node_' + str(n)
NodeRef(n) == [k |-> "node_", n |-> n]
\* s + '@node_' + str(n)
StrAt(s, n) == [k |-> "str@node_", s |-> s, n |-> n]
\* x.split("@")[0] and x.split("@")[1]
Split0(x) == Str(x.s)
Split1(x) == NodeRef(x.n)

List(items) == [k |-> "list", items |-> items]
IsList(v) == v.k = "list"
IsDict(v) == v.k \in {"dict", "spec"}
\* list.append(x) and list[len(list) - 1]
ListAppend(l, x) == List(Append(l.items, x))
ListLast(l) == l.items[Len(l.items)]
Last(s) == s[Len(s)]
Front(s) == SubSeq(s, 1, Len(s) - 1)
SetLast(s, x) == [s EXCEPT ![Len(s)] = x]

Coord(file, line, column) ==
    [k |-> "Coord", file |-> file, line |-> line, column |-> column]

(***************************************************************************)
(* c_ast nodes, as the productions construct them.  `ref` is the attribute *)
(* the productions attach to nodes ('node_n'), None when the attribute was    *)
(* never set.  coord is the Coord given to the node.                       *)
(* A Python list that travels on the parser stack is List(items).          *)
(***************************************************************************)
FileName == "f.c"

\* PLYParser._coord with its default column=None
_coord(lineno) == Coord(FileName, lineno, None)

TypeDecl(declname, quals, type, coord) ==
    [k |-> "TypeDecl", declname |-> declname, quals |-> quals, type |-> type,
     coord |-> coord, ref |-> None]
PtrDecl(quals, type, coord) ==
    [k |-> "PtrDecl", quals |-> quals, type |-> type, coord |-> coord, ref |-> None]
FuncDecl(args, type, coord) ==
    [k |-> "FuncDecl", args |-> args, type |-> type, coord |-> coord, ref |-> None]
ArrayDecl(type, dim, dim_quals, coord, ref) ==
    [k |-> "ArrayDecl", type |-> type, dim |-> dim, dim_quals |-> dim_quals,
     coord |-> coord, ref |-> ref]
IdentifierType(names, coord) ==
    [k |-> "IdentifierType", names |-> names, coord |-> coord, ref |-> None]
Decl(name, quals, storage, funcspec, type, init, bitsize, coord) ==
    [k |-> "Decl", name |-> name, quals |-> quals, storage |-> storage,
     funcspec |-> funcspec, type |-> type, init |-> init, bitsize |-> bitsize,
     coord |-> coord, ref |-> None]
Typedef(name, quals, storage, type, coord) ==
    [k |-> "Typedef", name |-> name, quals |-> quals, storage |-> storage,
     type |-> type, coord |-> coord, ref |-> None]
FuncDef(decl, param_decls, body, coord) ==
    [k |-> "FuncDef", decl |-> decl, param_decls |-> param_decls, body |-> body,
     coord |-> coord, ref |-> None]
ParamList(params, coord) ==
    [k |-> "ParamList", params |-> params, coord |-> coord, ref |-> None]
EllipsisParam(coord) == [k |-> "EllipsisParam", coord |-> coord, ref |-> None]
ID(name, coord) == [k |-> "ID", name |-> name, coord |-> coord, ref |-> None]
Compound(block_items, coord) ==
    [k |-> "Compound", block_items |-> block_items, coord |-> coord, ref |-> None]
BinaryOp(op, left, right, coord) ==
    [k |-> "BinaryOp", op |-> op, left |-> left, right |-> right, coord |-> coord,
     ref |-> None]
FileAST(ext) == [k |-> "FileAST", ext |-> ext, ref |-> None]
Pragma(string, coord) == [k |-> "Pragma", string |-> string, coord |-> coord, ref |-> None]
Struct(name, decls, coord) ==
    [k |-> "Struct", name |-> name, decls |-> decls, coord |-> coord, ref |-> None]
Union(name, decls, coord) ==
    [k |-> "Union", name |-> name, decls |-> decls, coord |-> coord, ref |-> None]
Enum(name, values, coord) ==
    [k |-> "Enum", name |-> name, values |-> values, coord |-> coord, ref |-> None]
EnumeratorList(enumerators, coord) ==
    [k |-> "EnumeratorList", enumerators |-> enumerators, coord |-> coord, ref |-> None]
Enumerator(name, value, coord) ==
    [k |-> "Enumerator", name |-> name, value |-> value, coord |-> coord, ref |-> None]
EmptyStatement(coord) == [k |-> "EmptyStatement", coord |-> coord, ref |-> None]

\* dict(decl=..., init=..., bitsize=...); a key that was not given reads as None
\* through dict.get
DeclDict(decl, init, bitsize) ==
    [k |-> "dict", decl |-> decl, init |-> init, bitsize |-> bitsize, ref |-> None]
\* dict(qual=[], storage=[], type=[], function=[])
SpecDict(qual, storage, type, function) ==
    [k |-> "spec", qual |-> qual, storage |-> storage, type |-> type,
     function |-> function, ref |-> None]

\* raise ParseError("%s: %s" % (coord, msg)); name is the %r argument of msg
_parse_error(msg, name, coord) ==
    [k |-> "ParseError", msg |-> msg, name |-> name, coord |-> coord]
PyError(kind) == [k |-> kind, msg |-> "", name |-> NoneName, coord |-> None]

(***************************************************************************)
(* The scope tracker.  A scope is a function from the names it holds to    *)
(* BOOLEAN (TRUE: typedef name).  Operators that can raise return a record *)
(* with the exception (or None) and the scope stack they leave behind.     *)
(***************************************************************************)
EmptyScope == << >>
DictGet(d, key, default) == IF key \in DOMAIN d THEN d[key] ELSE default
DictSet(d, key, v) == [x \in DOMAIN d \cup {key} |-> IF x = key THEN v ELSE d[x]]

\* a variant that opens two scopes
_push_scope_twice(stack) == Append(Append(stack, EmptyScope), EmptyScope)

_push_scope(stack) == Append(stack, EmptyScope)

\* a variant that leaves the innermost scope on the stack
_pop_scope_keeping(stack) ==
    IF Len(stack) > 1
    THEN [exc |-> None, stack |-> stack]
    ELSE [exc |-> PyError("AssertionError"), stack |-> stack]

\* a variant without the assertion
_pop_scope_unchecked(stack) == [exc |-> None, stack |-> Front(stack)]

\* assert len(self._scope_stack) > 1; self._scope_stack.pop()
_pop_scope(stack) ==
    IF Len(stack) > 1
    THEN [exc |-> None, stack |-> Front(stack)]
    ELSE [exc |-> PyError("AssertionError"), stack |-> stack]

\* a variant that checks the name and forgets to record it
_add_typedef_name_unrecorded(stack, name, coord) ==
    IF ~DictGet(Last(stack), name, TRUE)
    THEN [exc |-> _parse_error("Typedef %r previously declared as non-typedef in this scope",
                               name, coord),
          stack |-> stack]
    ELSE [exc |-> None, stack |-> stack]

\* a variant that looks for the name in every scope of the stack
_add_typedef_name_any_scope(stack, name, coord) ==
    IF \E i \in 1..Len(stack) : ~DictGet(stack[i], name, TRUE)
    THEN [exc |-> _parse_error("Typedef %r previously declared as non-typedef in this scope",
                               name, coord),
          stack |-> stack]
    ELSE [exc |-> None, stack |-> SetLast(stack, DictSet(Last(stack), name, TRUE))]

_add_typedef_name(stack, name, coord) ==
    IF ~DictGet(Last(stack), name, TRUE)
    THEN [exc |-> _parse_error("Typedef %r previously declared as non-typedef in this scope",
                               name, coord),
          stack |-> stack]
    ELSE [exc |-> None, stack |-> SetLast(stack, DictSet(Last(stack), name, TRUE))]

\* a variant that records the name without looking at the scope first
_add_identifier_overwriting(stack, name, coord) ==
    [exc |-> None, stack |-> SetLast(stack, DictSet(Last(stack), name, FALSE))]

_add_identifier(stack, name, coord) ==
    IF DictGet(Last(stack), name, FALSE)
    THEN [exc |-> _parse_error("Non-typedef %r previously declared as typedef in this scope",
                               name, coord),
          stack |-> stack]
    ELSE [exc |-> None, stack |-> SetLast(stack, DictSet(Last(stack), name, FALSE))]

RECURSIVE LookupFrom(_, _, _)
LookupFrom(stack, i, name) ==
    IF i = 0 THEN FALSE
    ELSE IF name \in DOMAIN stack[i] THEN stack[i][name]
    ELSE LookupFrom(stack, i - 1, name)

\* a variant that consults the innermost scope only
_is_type_in_innermost_scope(stack, name) == DictGet(Last(stack), name, FALSE)

\* a variant that consults the file scope only
_is_type_in_file_scope(stack, name) == LookupFrom(stack, 1, name)

_is_type_in_scope(stack, name) == LookupFrom(stack, Len(stack), name)

\* the error callback given to the lexer; name is the character msg quotes
_lex_error_func(msg, name, line, column) ==
    _parse_error(msg, name, Coord(FileName, line, column))

(***************************************************************************)
(* Declarator chains.  A declarator is a chain of modifier nodes linked    *)
(* through `type`, ending in a TypeDecl or in None.  The code mutates the  *)
(* nodes in place; here every operator returns the chain after the         *)
(* mutation.                                                               *)
(***************************************************************************)
\* modifier_tail.type = x, modifier_tail being found by
\* `while modifier_tail.type: modifier_tail = modifier_tail.type`
RECURSIVE SetModifierTail(_, _)
SetModifierTail(modifier, x) ==
    IF modifier.type.k = "None"
    THEN [modifier EXCEPT !.type = x]
    ELSE [modifier EXCEPT !.type = SetModifierTail(modifier.type, x)]

\* decl_tail is found by `while not isinstance(decl_tail.type, TypeDecl)`;
\* modifier_tail.type = decl_tail.type; decl_tail.type = modifier_head
RECURSIVE SpliceAtDeclTail(_, _)
SpliceAtDeclTail(decl, modifier) ==
    IF decl.type.k = "TypeDecl"
    THEN [decl EXCEPT !.type = SetModifierTail(modifier, decl.type)]
    ELSE [decl EXCEPT !.type = SpliceAtDeclTail(decl.type, modifier)]

\* a variant that puts the modifier above the whole declarator
_type_modify_decl_at_root(decl, modifier) == SetModifierTail(modifier, decl)

_type_modify_decl(decl, modifier) ==
    IF decl.k = "TypeDecl"
    THEN SetModifierTail(modifier, decl)
    ELSE SpliceAtDeclTail(decl, modifier)

\* `while not isinstance(type, c_ast.TypeDecl): type = type.type`
RECURSIVE UnderlyingTypeDecl(_)
UnderlyingTypeDecl(n) == IF n.k = "TypeDecl" THEN n ELSE UnderlyingTypeDecl(n.type)

\* the chain n with its underlying TypeDecl replaced by td
RECURSIVE SetUnderlyingTypeDecl(_, _)
SetUnderlyingTypeDecl(n, td) ==
    IF n.k = "TypeDecl" THEN td
    ELSE [n EXCEPT !.type = SetUnderlyingTypeDecl(n.type, td)]

\* [name for id in typename for name in id.names]
RECURSIVE AllNames(_)
AllNames(typename) ==
    IF typename = << >> THEN << >>
    ELSE Head(typename).names \o AllNames(Tail(typename))

SetMin(S) == CHOOSE x \in S : \A y \in S : x <= y

\* a variant that lets every declaration without a type default to int
_fix_decl_name_type_defaulting(decl, typename) ==
    LET type == UnderlyingTypeDecl(decl.type)
        fixed(t) == [decl EXCEPT !.name = type.declname,
                                 !.type = SetUnderlyingTypeDecl(decl.type,
                                              [type EXCEPT !.quals = decl.quals,
                                                           !.type = t])]
        others == {i \in 1..Len(typename) : typename[i].k # "IdentifierType"}
    IN  IF others # {}
        THEN LET tn == typename[SetMin(others)]
             IN  IF Len(typename) > 1
                 THEN [exc |-> _parse_error("Invalid multiple types specified",
                                            NoneName, tn.coord),
                       decl |-> fixed(type.type)]
                 ELSE [exc |-> None, decl |-> fixed(tn)]
        ELSE IF typename = << >>
        THEN [exc |-> None, decl |-> fixed(IdentifierType(<<"int">>, decl.coord))]
        ELSE [exc |-> None,
              decl |-> fixed(IdentifierType(AllNames(typename), typename[1].coord))]

_fix_decl_name_type(decl, typename) ==
    LET type == UnderlyingTypeDecl(decl.type)
        fixed(t) == [decl EXCEPT !.name = type.declname,
                                 !.type = SetUnderlyingTypeDecl(decl.type,
                                              [type EXCEPT !.quals = decl.quals,
                                                           !.type = t])]
        others == {i \in 1..Len(typename) : typename[i].k # "IdentifierType"}
    IN  IF others # {}
        THEN LET tn == typename[SetMin(others)]
             IN  IF Len(typename) > 1
                 THEN [exc |-> _parse_error("Invalid multiple types specified",
                                            NoneName, tn.coord),
                       decl |-> fixed(type.type)]
                 ELSE [exc |-> None, decl |-> fixed(tn)]
        ELSE IF typename = << >>
        THEN IF decl.type.k # "FuncDecl"
             THEN [exc |-> _parse_error("Missing type in declaration",
                                        NoneName, decl.coord),
                   decl |-> fixed(type.type)]
             ELSE [exc |-> None,
                   decl |-> fixed(IdentifierType(<<"int">>, decl.coord))]
        ELSE [exc |-> None,
              decl |-> fixed(IdentifierType(AllNames(typename), typename[1].coord))]

\* a variant that appends the new specifier
_add_declaration_specifier_appending(declspec, newspec, kind) ==
    LET spec == IF declspec.k = "None" THEN SpecDict(<< >>, << >>, << >>, << >>)
                ELSE declspec
    IN  [spec EXCEPT ![kind] = Append(@, newspec)]

\* spec = declspec or dict(qual=[], storage=[], type=[], function=[]);
\* spec[kind].insert(0, newspec)
_add_declaration_specifier(declspec, newspec, kind) ==
    LET spec == IF declspec.k = "None" THEN SpecDict(<< >>, << >>, << >>, << >>)
                ELSE declspec
    IN  [spec EXCEPT ![kind] = <<newspec>> \o @]

\* x in list
InList(x, list) == \E i \in 1..Len(list) : list[i] = x
\* `"node_" in decl`: a substring test on the strings of the list, a key test
\* on its dicts
HasNodeMark(decl) == decl.k \in {"node_", "str@node_"}

\* The repair of decls[0] at the head of _build_declarations.  Returns the
\* exception (or None), spec and decls after the repair.
FixFirstDecl(stack, spec, decls) ==
    LET ty == spec.type
        d0 == decls[1]
    IN  IF ~IsNone(d0.bitsize)
        THEN [exc |-> None, spec |-> spec, decls |-> decls]
        ELSE IF IsNone(d0.decl)
        THEN IF Len(ty) >= 2 /\ Last(ty).k # "IdentifierType"
             THEN \* spec['type'][-1].names of a Struct, Union or Enum
                  [exc |-> PyError("AttributeError"), spec |-> spec, decls |-> decls]
             ELSE IF \/ Len(ty) < 2
                     \/ Len(Last(ty).names) # 1
                     \/ ~_is_type_in_scope(stack, Last(ty).names[1])
             THEN [exc |-> _parse_error("Invalid declaration", NoneName,
                                        IF ty = << >> THEN Str("?") ELSE ty[1].coord),
                   spec |-> spec, decls |-> decls]
             ELSE [exc |-> None,
                   spec |-> [spec EXCEPT !.type = Front(ty)],
                   decls |-> [decls EXCEPT ![1].decl =
                                 TypeDecl(Last(ty).names[1], None, None, Last(ty).coord)]]
        ELSE IF d0.decl.k \notin {"Struct", "Union", "IdentifierType"}
        THEN LET decls_0_tail == UnderlyingTypeDecl(d0.decl)
             IN  IF decls_0_tail.declname = NoneName /\ ty = << >>
                 THEN \* spec['type'][-1] of an empty list
                      [exc |-> PyError("IndexError"), spec |-> spec, decls |-> decls]
                 ELSE IF decls_0_tail.declname = NoneName /\ Last(ty).k # "IdentifierType"
                 THEN [exc |-> PyError("AttributeError"), spec |-> spec, decls |-> decls]
                 ELSE IF decls_0_tail.declname = NoneName
                 THEN [exc |-> None,
                       spec |-> [spec EXCEPT !.type = Front(ty)],
                       decls |-> [decls EXCEPT ![1].decl =
                                     SetUnderlyingTypeDecl(d0.decl,
                                         [decls_0_tail EXCEPT !.declname = Last(ty).names[1]])]]
                 ELSE [exc |-> None, spec |-> spec, decls |-> decls]
        ELSE [exc |-> None, spec |-> spec, decls |-> decls]

\* The `for decl in decls` loop of _build_declarations from position i on;
\* stack is the scope stack and declarations the list built so far.
RECURSIVE BuildLoop(_, _, _, _, _, _)
BuildLoop(stack, spec, decls, typedef_namespace, i, declarations) ==
    IF i > Len(decls)
    THEN [exc |-> None, stack |-> stack, declarations |-> declarations]
    ELSE IF HasNodeMark(decls[i])
    THEN BuildLoop(stack, spec, decls, typedef_namespace, i + 1, declarations)
    ELSE IF IsNone(decls[i].decl)
    THEN [exc |-> PyError("AssertionError"), stack |-> stack,
          declarations |-> declarations]
    ELSE
    LET decl == decls[i]
        is_typedef == InList(Str("typedef"), spec.storage)
        declaration ==
            IF is_typedef
            THEN Typedef(NoneName, spec.qual, spec.storage, decl.decl, decl.decl.coord)
            ELSE Decl(NoneName, spec.qual, spec.storage, spec.function, decl.decl,
                      decl.init, decl.bitsize, decl.decl.coord)
        fix == IF declaration.type.k \in {"Struct", "Union", "IdentifierType"}
               THEN [exc |-> None, decl |-> declaration]
               ELSE _fix_decl_name_type(declaration, spec.type)
        fixed_decl == fix.decl
        reg == IF ~typedef_namespace THEN [exc |-> None, stack |-> stack]
               ELSE IF is_typedef
               THEN _add_typedef_name(stack, fixed_decl.name, fixed_decl.coord)
               ELSE _add_identifier(stack, fixed_decl.name, fixed_decl.coord)
    IN  IF ~IsNone(fix.exc)
        THEN [exc |-> fix.exc, stack |-> stack, declarations |-> declarations]
        ELSE IF ~IsNone(reg.exc)
        THEN [exc |-> reg.exc, stack |-> stack, declarations |-> declarations]
        ELSE BuildLoop(reg.stack, spec, decls, typedef_namespace, i + 1,
                       Append(declarations, fixed_decl))

\* a variant that registers the names whatever typedef_namespace says
_build_declarations_registering(stack, spec, decls, typedef_namespace) ==
    LET fix0 == FixFirstDecl(stack, spec, decls)
    IN  IF ~IsNone(fix0.exc)
        THEN [exc |-> fix0.exc, stack |-> stack, declarations |-> << >>]
        ELSE BuildLoop(stack, fix0.spec, fix0.decls, TRUE, 1, << >>)

_build_declarations(stack, spec, decls, typedef_namespace) ==
    LET fix0 == FixFirstDecl(stack, spec, decls)
    IN  IF ~IsNone(fix0.exc)
        THEN [exc |-> fix0.exc, stack |-> stack, declarations |-> << >>]
        ELSE BuildLoop(stack, fix0.spec, fix0.decls, typedef_namespace, 1, << >>)

\* a variant that builds the declaration of the function outside the
\* typedef namespace
_build_function_definition_unregistered(stack, spec, decl, param_decls, body) ==
    IF InList(Str("typedef"), spec.storage)
    THEN [exc |-> PyError("AssertionError"), stack |-> stack, node |-> None]
    ELSE LET b == _build_declarations(stack, spec, <<DeclDict(decl, None, None)>>, FALSE)
         IN  IF ~IsNone(b.exc)
             THEN [exc |-> b.exc, stack |-> b.stack, node |-> None]
             ELSE [exc |-> None, stack |-> b.stack,
                   node |-> FuncDef(b.declarations[1], param_decls, body, decl.coord)]

\* assert 'typedef' not in spec['storage']; the FuncDef around the first
\* declaration built for dict(decl=decl, init=None)
_build_function_definition(stack, spec, decl, param_decls, body) ==
    IF InList(Str("typedef"), spec.storage)
    THEN [exc |-> PyError("AssertionError"), stack |-> stack, node |-> None]
    ELSE LET b == _build_declarations(stack, spec, <<DeclDict(decl, None, None)>>, TRUE)
         IN  IF ~IsNone(b.exc)
             THEN [exc |-> b.exc, stack |-> b.stack, node |-> None]
             ELSE [exc |-> None, stack |-> b.stack,
                   node |-> FuncDef(b.declarations[1], param_decls, body, decl.coord)]

(***************************************************************************)
(* The token source (c_lexer.CLexer).  A text is a sequence of lexemes,    *)
(* one per line.  The lexer classifies an identifier-shaped lexeme through *)
(* type_lookup_func at the moment it issues the token, calls               *)
(* on_lbrace_func / on_rbrace_func when it recognises a brace, remembers   *)
(* the token it issued in last_token, and returns None at the end.         *)
(***************************************************************************)
Keywords ==
    [typedef |-> "TYPEDEF", int |-> "INT", char |-> "CHAR", const |-> "CONST",
     volatile |-> "VOLATILE", enum |-> "ENUM"]

Punctuators ==
    (";" :> "SEMI") @@ ("," :> "COMMA") @@ ("(" :> "LPAREN") @@ (")" :> "RPAREN") @@
    ("[" :> "LBRACKET") @@ ("]" :> "RBRACKET") @@ ("{" :> "LBRACE") @@ ("}" :> "RBRACE") @@
    ("*" :> "TIMES") @@ ("/" :> "DIVIDE") @@ ("%" :> "MOD") @@ ("+" :> "PLUS") @@
    ("-" :> "MINUS") @@ (">>" :> "RSHIFT") @@ ("<<" :> "LSHIFT") @@ ("<" :> "LT") @@
    ("<=" :> "LE") @@ (">=" :> "GE") @@ (">" :> "GT") @@ ("==" :> "EQ") @@
    ("!=" :> "NE") @@ ("&" :> "AND") @@ ("|" :> "OR") @@ ("^" :> "XOR") @@
    ("&&" :> "LAND") @@ ("||" :> "LOR") @@ ("=" :> "EQUALS") @@ ("..." :> "ELLIPSIS")

\* what is left of a preprocessor line when the text was not preprocessed
Directives == ("#" :> "PPHASH") @@ ("#pragma" :> "PPPRAGMA")
\* the rest of a #pragma line
PragmaStrings == {"once"}
\* characters no token starts with
IllegalCharacters == {"$"}

\* the kind the lexer gives to lexeme lx when the scope stack is stack
TokenType(stack, lx) ==
    IF lx \in DOMAIN Keywords THEN Keywords[lx]
    ELSE IF lx \in DOMAIN Punctuators THEN Punctuators[lx]
    ELSE IF lx \in DOMAIN Directives THEN Directives[lx]
    ELSE IF _is_type_in_scope(stack, lx) THEN "TYPEID"
    ELSE "ID"

Token(type, value, lineno, pos) ==
    [k |-> "tok", type |-> type, value |-> value, lineno |-> lineno, pos |-> pos]
\* the $end symbol the LR engine uses as lookahead once the lexer returned None
EndToken == [k |-> "tok", type |-> "$end", value |-> "", lineno |-> 0, pos |-> 0]

\* CLexer.find_tok_column: every lexeme starts its line
find_tok_column(tok) == 1

(***************************************************************************)
(* The LR engine (ply.yacc).  symstack holds, for every symbol, its name,  *)
(* its value and its lineno (the token's line for a terminal, 0 for a      *)
(* nonterminal unless the production called set_lineno).                   *)
(***************************************************************************)
Sym(i) == IF i > Len(symstack) THEN "$" ELSE symstack[Len(symstack) + 1 - i].sym
\* p[i] and p.lineno(i) of a production with n right-hand symbols
P(n, i) == symstack[Len(symstack) - n + i].val
PLineno(n, i) == symstack[Len(symstack) - n + i].lineno

Entry(sym, val, lineno) == [sym |-> sym, val |-> val, lineno |-> lineno]

Returned(ast, g) == [k |-> "returned", ast |-> ast, graph |-> g]
Raised(exc) == [k |-> "raised", exc |-> exc]

\* the parse call ends with outcome o
Finish(o) ==
    /\ pc' = "idle"
    /\ outcome' = o
    /\ first' = IF IsNone(first)
                THEN [k |-> "first", text |-> clex.input, outcome |-> o,
                      scopes |-> Len(_scope_stack)]
                ELSE first

\* CParser.precedence: the levels from lowest to highest, all 'left'
precedence ==
    << {"LOR"}, {"LAND"}, {"OR"}, {"XOR"}, {"AND"}, {"EQ", "NE"},
       {"GT", "GE", "LT", "LE"}, {"RSHIFT", "LSHIFT"}, {"PLUS", "MINUS"},
       {"TIMES", "DIVIDE", "MOD"} >>
BinaryOperators == UNION {precedence[i] : i \in 1..Len(precedence)}
\* a variant that gives every operator the same level
PrecFlat(t) == 1
Prec(t) == CHOOSE i \in 1..Len(precedence) : t \in precedence[i]

\* tokens that can begin declaration_specifiers, a declarator, a block item
SpecifierStart == {"TYPEDEF", "INT", "CHAR", "TYPEID", "ENUM"}
DeclaratorStart == {"ID", "TIMES", "LPAREN"}
\* what is left of a declarator whose name went to the specifiers
AbstractStart == {"LBRACKET"}
BlockItemStart == SpecifierStart \cup {"ID", "PPPRAGMA"}
\* tokens that can begin an external declaration
ExternalStart == SpecifierStart \cup DeclaratorStart \cup {"PPHASH", "PPPRAGMA"}
\* LALR lookaheads of `direct_declarator : ID .` and of `identifier : ID .`
AfterDeclaratorID ==
    {"COMMA", "SEMI", "EQUALS", "RPAREN", "LPAREN", "LBRACKET", "LBRACE", "COLON"}
        \cup SpecifierStart
AfterIdentifier ==
    BinaryOperators \cup {"COMMA", "SEMI", "RPAREN", "LPAREN", "LBRACKET", "RBRACKET",
                          "RBRACE", "EQUALS", "COLON", "CONDOP"}

Shift == [h |-> "shift", arg |-> ""]
Error == [h |-> "p_error", arg |-> ""]
Accept == [h |-> "accept", arg |-> ""]
Rule(h) == [h |-> h, arg |-> ""]
\* reduce by the generated rule `<rulename>_opt : <rulename>` when the rule
\* name is on top of the stack, by `empty :` otherwise
Opt(rulename) == [h |-> "optrule", arg |-> rulename]
Empty == Rule("p_empty")
When(cond, act) == IF cond THEN act ELSE Error

\* Is the ID on top of the stack in an identifier position (an expression or
\* a K&R identifier list) rather than in a declarator?
InIdentifierPosition ==
    \/ Sym(2) \in {"brace_open", "block_item_list"} \cup BinaryOperators
          /\ ~(Sym(2) = "TIMES" /\ Sym(3) # "binary_expression")
          /\ ~(Sym(2) = "brace_open" /\ Sym(3) = "ENUM")
    \/ Sym(2) = "LPAREN" /\ Sym(3) = "direct_declarator"
    \/ Sym(2) = "COMMA" /\ Sym(3) = "identifier_list"
    \/ Sym(2) = "EQUALS"

\* Is the ID on top of the stack the name of an enumerator?
InEnumeratorPosition ==
    \/ Sym(2) = "brace_open" /\ Sym(3) = "ENUM"
    \/ Sym(2) = "COMMA" /\ Sym(3) = "enumerator_list"

\* Is the TIMES on top of the stack the operator of a binary expression?
TimesIsOperator == Sym(2) = "binary_expression"

(***************************************************************************)
(* The decision of the LR automaton built from the productions'            *)
(* docstrings, for the part of the grammar the model covers: what the      *)
(* engine does when the symbols on the stack are symstack and the          *)
(* lookahead token has kind la.                                            *)
(***************************************************************************)
DecideSpecifier(top, la) ==
    CASE top = "TYPEDEF" -> Rule("p_storage_class_specifier")
      [] top \in {"INT", "CHAR"} -> Rule("p_type_specifier_1")
      [] top = "TYPEID" -> Rule("p_typedef_name")
      [] top = "typedef_name" -> Rule("p_type_specifier_2")
      [] top \in {"type_specifier", "storage_class_specifier"} ->
            IF la \in SpecifierStart THEN Shift
            ELSE When(la \in DeclaratorStart \cup AbstractStart \cup {"SEMI", "EQUALS"},
                      Empty)
      [] top = "declaration_specifiers_opt" ->
            IF Sym(2) = "type_specifier" THEN Rule("p_declaration_specifiers_2")
            ELSE Rule("p_declaration_specifiers_3")
      [] top = "declaration_specifiers" ->
            IF Sym(2) \in {"type_specifier", "storage_class_specifier"}
            THEN Opt("declaration_specifiers")
            ELSE IF la \in DeclaratorStart \cup AbstractStart \cup {"EQUALS"} THEN Shift
            ELSE When(la = "SEMI", Empty)

DecideDeclaration(top, la) ==
    CASE top = "init_declarator" -> Rule("p_init_declarator_list_1")
      [] top = "EQUALS" -> When(la = "ID", Shift)
      [] top = "initializer" ->
            IF Sym(3) = "declarator" THEN Rule("p_init_declarator")
            ELSE Rule("p_init_declarator_list_2")
      [] top = "init_declarator_list" ->
            IF la = "COMMA" THEN Shift ELSE When(la = "SEMI", Opt("init_declarator_list"))
      [] top = "init_declarator_list_opt" -> When(la = "SEMI", Rule("p_decl_body"))
      [] top = "decl_body" -> When(la = "SEMI", Shift)
      [] top = "SEMI" ->
            IF Sym(2) = "decl_body" THEN Rule("p_declaration")
            ELSE Rule("p_expression_statement")
      [] top = "declaration" ->
            IF Sym(2) \in {"$", "translation_unit"} THEN Rule("p_external_declaration_2")
            ELSE IF Sym(2) \in {"brace_open", "block_item_list"} THEN Rule("p_block_item")
            ELSE Rule("p_declaration_list")
      [] top = "declaration_list" ->
            IF la \in SpecifierStart THEN Shift
            ELSE When(la = "LBRACE", Opt("declaration_list"))
      [] top = "declaration_list_opt" -> When(la = "LBRACE", Shift)
      [] top = "function_definition" -> Rule("p_external_declaration_1")
      [] top = "external_declaration" ->
            IF Sym(2) = "$" THEN Rule("p_translation_unit_1")
            ELSE Rule("p_translation_unit_2")
      [] top = "translation_unit" ->
            IF la = "$end" THEN Rule("p_translation_unit_or_empty")
            ELSE When(la \in ExternalStart, Shift)
      [] top = "translation_unit_or_empty" -> When(la = "$end", Accept)

DecideDeclarator(top, la) ==
    CASE top = "ID" -> When(la \in AfterDeclaratorID, Rule("p_direct_declarator_1"))
      [] top = "direct_declarator" ->
            IF la \in {"LPAREN", "LBRACKET"} THEN Shift
            ELSE IF Sym(2) = "pointer" THEN Rule("p_declarator_2")
            ELSE Rule("p_declarator_1")
      [] top = "declarator" ->
            IF Sym(2) = "LPAREN" THEN When(la = "RPAREN", Shift)
            ELSE IF Sym(2) = "declaration_specifiers" /\ Sym(3) \in {"LPAREN", "COMMA"}
            THEN When(la \in {"COMMA", "RPAREN"}, Rule("p_parameter_declaration_1"))
            ELSE IF la \in {"COMMA", "SEMI"} THEN Rule("p_init_declarator")
            ELSE IF la = "EQUALS" THEN Shift
            ELSE IF la = "LBRACE" THEN Empty
            ELSE When(la \in SpecifierStart, Shift)
      [] top = "LPAREN" ->
            IF Sym(2) = "direct_declarator"
            THEN IF la = "RPAREN" THEN Empty
                 ELSE When(la \in SpecifierStart \cup {"ID"}, Shift)
            ELSE When(la \in DeclaratorStart, Shift)
      [] top = "COMMA" ->
            IF Sym(2) = "parameter_list"
            THEN When(la \in SpecifierStart \cup {"ELLIPSIS"}, Shift)
            ELSE When(la \in DeclaratorStart, Shift)
      [] top = "parameter_declaration" -> Rule("p_parameter_list")
      [] top = "parameter_list" ->
            IF la = "COMMA" THEN Shift
            ELSE When(la = "RPAREN", Rule("p_parameter_type_list"))
      [] top = "ELLIPSIS" -> When(la = "RPAREN", Rule("p_parameter_type_list"))
      [] top = "parameter_type_list" -> When(la = "RPAREN", Shift)
      [] top = "identifier_list" ->
            IF la = "COMMA" THEN Shift ELSE When(la = "RPAREN", Opt("identifier_list"))
      [] top = "identifier_list_opt" -> When(la = "RPAREN", Shift)
      [] top = "RPAREN" ->
            IF Sym(2) = "declarator" THEN Rule("p_direct_declarator_2")
            ELSE Rule("p_direct_declarator_6")
      [] top = "LBRACKET" -> When(la = "RBRACKET", Empty)
      [] top = "assignment_expression_opt" -> When(la = "RBRACKET", Shift)
      [] top = "RBRACKET" ->
            IF Sym(4) = "declaration_specifiers" THEN Rule("p_direct_abstract_declarator_3")
            ELSE Rule("p_direct_declarator_3")
      [] top = "direct_abstract_declarator" ->
            When(la \in {"SEMI", "COMMA"}, Rule("p_abstract_declarator_3"))
      [] top = "abstract_declarator" -> Rule("p_init_declarator_list_3")
      [] top = "TIMES" ->
            IF la \in {"CONST", "VOLATILE"} THEN Shift
            ELSE When(la \in DeclaratorStart, Empty)
      [] top \in {"CONST", "VOLATILE"} -> Rule("p_type_qualifier")
      [] top = "type_qualifier" -> Rule("p_type_qualifier_list")
      [] top = "type_qualifier_list" ->
            IF la \in {"CONST", "VOLATILE"} THEN Shift
            ELSE When(la \in DeclaratorStart, Opt("type_qualifier_list"))
      [] top = "type_qualifier_list_opt" ->
            IF Sym(2) = "LBRACKET" THEN When(la = "RBRACKET", Empty)
            ELSE IF la = "TIMES" THEN Shift
            ELSE Rule("p_pointer")
      [] top = "pointer" ->
            IF Sym(2) = "type_qualifier_list_opt" THEN Rule("p_pointer")
            ELSE When(la \in {"ID", "LPAREN"}, Shift)

DecideBlock(top, la) ==
    CASE top = "LBRACE" -> When(la \in BlockItemStart \cup {"RBRACE"}, Rule("p_brace_open"))
      [] top = "brace_open" ->
            IF Sym(2) = "ENUM" THEN When(la = "ID", Shift)
            ELSE IF la = "RBRACE" THEN Empty ELSE When(la \in BlockItemStart, Shift)
      [] top = "block_item" -> Rule("p_block_item_list")
      [] top = "block_item_list" ->
            IF la = "RBRACE" THEN Opt("block_item_list")
            ELSE When(la \in BlockItemStart, Shift)
      [] top = "block_item_list_opt" -> When(la = "RBRACE", Shift)
      [] top = "RBRACE" -> Rule("p_brace_close")
      [] top = "brace_close" ->
            IF Sym(2) = "enumerator_list" THEN Rule("p_enum_specifier_2")
            ELSE Rule("p_compound_statement_1")
      [] top = "compound_statement" -> Rule("p_function_definition_2")
      [] top = "statement" -> Rule("p_block_item")
      [] top = "expression_statement" -> Rule("p_statement")

DecideExpression(top, la) ==
    CASE top = "ID" -> When(la \in AfterIdentifier, Rule("p_identifier"))
      [] top = "identifier" ->
            IF Sym(2) \in {"LPAREN", "COMMA"} THEN Rule("p_identifier_list")
            ELSE Rule("p_primary_expression_1")
      [] top = "primary_expression" -> Rule("p_postfix_expression_1")
      [] top = "postfix_expression" -> Rule("p_unary_expression_1")
      [] top = "unary_expression" -> Rule("p_cast_expression_1")
      [] top = "cast_expression" -> Rule("p_binary_expression")
      [] top = "binary_expression" ->
            IF Sym(2) \in BinaryOperators
            THEN \* binary_expression OP binary_expression . with all levels 'left'
                 IF la \in BinaryOperators /\ Prec(la) > Prec(Sym(2)) THEN Shift
                 ELSE Rule("p_binary_expression")
            ELSE IF la \in BinaryOperators THEN Shift
            ELSE Rule("p_conditional_expression")
      [] top \in BinaryOperators -> When(la = "ID", Shift)
      [] top = "conditional_expression" ->
            IF Sym(2) = "EQUALS" /\ Sym(3) = "ID" THEN Rule("p_constant_expression")
            ELSE Rule("p_assignment_expression")
      [] top = "assignment_expression" ->
            IF Sym(2) = "EQUALS" THEN Rule("p_initializer_1") ELSE Rule("p_expression")
      [] top = "expression" -> When(la = "SEMI", Opt("expression"))
      [] top = "expression_opt" -> When(la = "SEMI", Shift)

\* The anonymous form `ENUM brace_open enumerator_list brace_close`.
DecideEnum(top, la) ==
    CASE top = "ENUM" -> When(la = "LBRACE", Shift)
      [] top = "ID" ->
            IF la = "EQUALS" THEN Shift
            ELSE When(la \in {"COMMA", "RBRACE"}, Rule("p_enumerator"))
      [] top = "constant_expression" ->
            When(la \in {"COMMA", "RBRACE"}, Rule("p_enumerator"))
      [] top = "enumerator" -> Rule("p_enumerator_list")
      [] top = "enumerator_list" -> When(la \in {"COMMA", "RBRACE"}, Shift)
      [] top = "COMMA" ->
            IF la = "RBRACE" THEN Rule("p_enumerator_list") ELSE When(la = "ID", Shift)
      [] top = "enum_specifier" -> Rule("p_type_specifier_2")

\* The states after PPPRAGMA are the same at file level and in a block.
DecideDirective(top, la) ==
    CASE top = "PPHASH" -> When(la \in ExternalStart \cup {"$end"}, Rule("p_pp_directive"))
      [] top = "PPPRAGMA" ->
            IF la = "PPPRAGMASTR" THEN Shift
            ELSE When(la \in ExternalStart \cup BlockItemStart \cup {"RBRACE", "$end"},
                      Rule("p_pppragma_directive"))
      [] top = "PPPRAGMASTR" ->
            When(la \in ExternalStart \cup BlockItemStart \cup {"RBRACE", "$end"},
                 Rule("p_pppragma_directive"))
      [] top = "pp_directive" -> Rule("p_external_declaration_3")
      [] top = "pppragma_directive" ->
            IF Sym(2) \in {"$", "translation_unit"} THEN Rule("p_external_declaration_3")
            ELSE Rule("p_statement")

\* the rule whose optional form the `empty` on top of the stack stands for
DecideEmpty ==
    CASE Sym(2) = "$" -> Rule("p_translation_unit_or_empty")
      [] Sym(2) \in {"type_specifier", "storage_class_specifier"} ->
            Opt("declaration_specifiers")
      [] Sym(2) = "declaration_specifiers" -> Opt("init_declarator_list")
      [] Sym(2) = "declarator" -> Opt("declaration_list")
      [] Sym(2) = "LPAREN" -> Opt("identifier_list")
      [] Sym(2) = "brace_open" -> Opt("block_item_list")
      [] Sym(2) = "LBRACKET" /\ Sym(3) = "declaration_specifiers" ->
            Opt("assignment_expression")
      [] Sym(2) \in {"TIMES", "LBRACKET"} -> Opt("type_qualifier_list")
      [] Sym(2) = "type_qualifier_list_opt" -> Opt("assignment_expression")

SpecifierSymbols ==
    {"TYPEDEF", "INT", "CHAR", "TYPEID", "typedef_name", "type_specifier",
     "storage_class_specifier", "declaration_specifiers_opt", "declaration_specifiers"}
DeclarationSymbols ==
    {"init_declarator", "EQUALS", "initializer", "init_declarator_list",
     "init_declarator_list_opt", "decl_body",
     "SEMI", "declaration", "declaration_list", "declaration_list_opt",
     "function_definition", "external_declaration", "translation_unit",
     "translation_unit_or_empty"}
BlockSymbols ==
    {"LBRACE", "brace_open", "block_item", "block_item_list", "block_item_list_opt",
     "RBRACE", "brace_close", "compound_statement", "statement", "expression_statement"}
EnumSymbols ==
    {"ENUM", "constant_expression", "enumerator", "enumerator_list", "enum_specifier"}
DirectiveSymbols == {"PPHASH", "PPPRAGMA", "PPPRAGMASTR", "pp_directive", "pppragma_directive"}
ExpressionSymbols ==
    {"identifier", "primary_expression", "postfix_expression", "unary_expression",
     "cast_expression", "binary_expression", "conditional_expression",
     "assignment_expression", "expression", "expression_opt"}
        \cup (BinaryOperators \ {"TIMES"})

\* with the end of the input as lookahead the automaton still reduces what
\* can end a translation unit
CanEndInput ==
    \/ Sym(1) \in {"$", "SEMI", "RBRACE", "brace_close", "compound_statement",
                   "function_definition", "external_declaration", "translation_unit",
                   "translation_unit_or_empty"}
    \/ Sym(1) = "declaration" /\ Sym(2) \in {"$", "translation_unit"}
    \/ Sym(1) = "empty" /\ Sym(2) = "$"
    \/ Sym(1) \in {"PPHASH", "PPPRAGMA", "PPPRAGMASTR"}
    \/ Sym(1) \in {"pp_directive", "pppragma_directive"}
          /\ Sym(2) \in {"$", "translation_unit"}

Decide ==
    LET top == Sym(1)
        la == lookahead.type
    IN  IF la = "$end" /\ ~CanEndInput THEN Error
        ELSE IF top = "$"
        THEN IF la = "$end" THEN Empty
             ELSE When(la \in ExternalStart, Shift)
        ELSE IF top = "empty" THEN DecideEmpty
        ELSE IF \/ top \in EnumSymbols
                \/ top = "ID" /\ InEnumeratorPosition
                \/ top = "COMMA" /\ Sym(2) = "enumerator_list"
        THEN DecideEnum(top, la)
        ELSE IF top \in SpecifierSymbols THEN DecideSpecifier(top, la)
        ELSE IF top \in DeclarationSymbols THEN DecideDeclaration(top, la)
        ELSE IF top \in BlockSymbols THEN DecideBlock(top, la)
        ELSE IF top \in DirectiveSymbols THEN DecideDirective(top, la)
        ELSE IF \/ top \in ExpressionSymbols
                \/ top = "ID" /\ InIdentifierPosition
                \/ top = "TIMES" /\ TimesIsOperator
        THEN DecideExpression(top, la)
        ELSE DecideDeclarator(top, la)

(***************************************************************************)
(* Steps of a parse call.                                                  *)
(***************************************************************************)
\* the engine is about to apply handler h
At(h) == pc = "parsing" /\ ~IsNone(lookahead) /\ Decide = Rule(h)

AddToGraph(nodes, edges) ==
    [nodes |-> graph.nodes + nodes, edges |-> graph.edges + edges]

\* A production with n right-hand symbols returns: its symbols are replaced by
\* sym carrying p[0] = val; the handler has left the scope stack as stack,
\* raised the counter by dc (adding as many graph nodes) and added de edges.
ReduceWith(stack, n, sym, val, lineno, dc, de) ==
    /\ symstack' = Append(SubSeq(symstack, 1, Len(symstack) - n), Entry(sym, val, lineno))
    /\ _scope_stack' = stack
    /\ counter' = counter + dc
    /\ graph' = AddToGraph(dc, de)
    /\ UNCHANGED << _last_yielded_token, tmp, clex, lookahead, pc, outcome, trace,
                    first, calls, objects >>

Reduce(n, sym, val, dc, de) == ReduceWith(_scope_stack, n, sym, val, 0, dc, de)

\* An exception leaves a handler (or the lexer) and ends the parse call; the
\* engine's stack is dropped with the call.
RaiseWith(exc, stack, dc, de) ==
    /\ Finish(Raised(exc))
    /\ symstack' = << >>
    /\ lookahead' = None
    /\ _scope_stack' = stack
    /\ counter' = counter + dc
    /\ graph' = AddToGraph(dc, de)
    /\ UNCHANGED << _last_yielded_token, tmp, clex, trace, calls, objects >>

\* the value of `'node_' + str(counter - 1)` after the handler's dc increments
NewRef(dc) == NodeRef(counter + dc - 1)
\* p[0].ref = ... and p[0]["ref"] = ...
WithRef(v, r) == [v EXCEPT !.ref = r]

(***************************************************************************)
(* The texts given to parse.                                               *)
(***************************************************************************)
RECURSIVE Flatten(_)
Flatten(ss) == IF ss = << >> THEN << >> ELSE Head(ss) \o Flatten(Tail(ss))
Stars(n) == [i \in 1..n |-> "*"]
SeqsUpTo(S, n) == UNION {[1..m -> S] : m \in 0..n}

EmptyInput == << >>
TypedefRoundTrip == <<"typedef", "int", "myint", ";", "myint", "v", ";">>
TypedefPointer == <<"typedef", "int", "*", "myint", ";", "myint", "v", ";">>
FunctionHead == <<"int", "f", "(", ")">>
TypedefInBlock ==
    FunctionHead \o <<"{", "typedef", "int", "T", ";", "T", "v", ";", "}", "T", "w", ";">>
Redeclaration == <<"typedef", "int", "T", ";", "int", "T", ";">>
RedeclarationInBlock ==
    FunctionHead \o <<"{", "typedef", "int", "T", ";", "int", "T", ";", "}">>
Shadowing ==
    <<"typedef", "int", "T", ";">> \o FunctionHead
        \o <<"{", "int", "T", ";", "int", "T", ";", "}", "T", "v", ";">>
ShadowingMisuse ==
    <<"typedef", "int", "T", ";">> \o FunctionHead
        \o <<"{", "int", "T", ";", "T", "v", ";", "}">>
Unclosed == FunctionHead \o <<"{">>
Unopened == <<"}">>
Unfinished == <<"int", "x">>
Initialized == <<"int", "x", "=", "a", ",", "y", ";">>
RedeclarationInitialized == <<"typedef", "int", "T", ";", "int", "T", "=", "a", ";">>
KandR == <<"int", "f", "(", "a", ",", "b", ")", "int", "a", ",", "b", ";", "{", "}">>
KandRSplit ==
    <<"int", "f", "(", "a", ",", "b", ")", "int", "a", ";", "int", "b", ";", "{", "}">>
KandRUntyped == <<"int", "f", "(", "a", ",", "b", ")", "{", "}">>
TypedParameters ==
    <<"typedef", "int", "T", ";", "int", "f", "(", "int", "a", ",", "T", "b", ")",
      "{", "a", "*", "b", ";", "}">>
Variadic == <<"int", "f", "(", "int", "a", ",", "...", ")", "{", "}">>
Prototype == <<"int", "f", "(", "int", "a", ",", "int", "b", ")", ";">>

IllegalCharacter == <<"int", "$", "x", ";">>
DirectiveAtFileLevel == <<"#", "int", "x", ";">>
DirectiveInBody == FunctionHead \o <<"{", "#", "}">>
PragmaAtFileLevel == <<"int", "x", ";", "#pragma", "int", "y", ";">>
PragmaStringAtFileLevel == <<"#pragma", "once">>
PragmaInBody == FunctionHead \o <<"{", "#pragma", "}">>
PragmaStringInBody == FunctionHead \o <<"{", "#pragma", "once", "a", ";", "}">>
ShadowingInitialized ==
    <<"typedef", "int", "T", ";">> \o FunctionHead \o <<"{", "int", "T", "=", "a", ";", "}">>
DuplicateArrayTypedef ==
    <<"typedef", "int", "T", "[", "]", ";", "typedef", "int", "T", "[", "]", ";">>
NoDeclarator == <<"int", ";">>
NothingDeclared == <<"typedef", ";">>

EnumSingle == <<"enum", "{", "A", "}", "x", ";">>
EnumPair == <<"enum", "{", "A", ",", "B", "}", "x", ";">>
EnumTrailingComma == <<"enum", "{", "A", ",", "B", ",", "}", "x", ";">>
EnumValued == <<"enum", "{", "A", ",", "B", "=", "A", "}", "x", ";">>
EnumInBlock == FunctionHead \o <<"{", "enum", "{", "A", ",", "B", "}", "x", ";", "}">>
FixedInputs ==
    {EmptyInput, TypedefRoundTrip, TypedefPointer, TypedefInBlock, Redeclaration,
     RedeclarationInBlock, Shadowing, ShadowingMisuse, Unclosed, Unopened, Unfinished,
     Initialized, RedeclarationInitialized, KandR, KandRSplit, KandRUntyped,
     IllegalCharacter, DirectiveAtFileLevel, DirectiveInBody, PragmaAtFileLevel,
     PragmaStringAtFileLevel, PragmaInBody, PragmaStringInBody, NoDeclarator,
     NothingDeclared, TypedParameters, Variadic, Prototype, ShadowingInitialized,
     DuplicateArrayTypedef, EnumSingle, EnumPair, EnumTrailingComma, EnumValued,
     EnumInBlock}

\* int x, *px, y; and its variants
DeclNames == <<"x", "px", "y", "z", "w">>
DeclaratorList(stars) ==
    <<"int">>
        \o Flatten([i \in 1..Len(stars) |->
                      (IF i = 1 THEN << >> ELSE <<",">>) \o Stars(stars[i])
                          \o <<DeclNames[i]>>])
        \o <<";">>
StarLists == UNION {[1..n -> 0..MaxStars] : n \in 1..MaxDeclarators}
DeclaratorListInputs == {DeclaratorList(stars) : stars \in StarLists}

\* char * const * p; and its variants: every star with its own qualifiers
QualifierLists ==
    {<< >>, <<"const">>, <<"volatile">>, <<"const", "volatile">>, <<"volatile", "const">>}
QualifiedPrefixes == UNION {[1..n -> QualifierLists] : n \in 1..MaxPointers}
PointerPrefix(quals) == Flatten([i \in 1..Len(quals) |-> <<"*">> \o quals[i]])
QualifiedPointerInputs ==
    {<<"char">> \o PointerPrefix(quals) \o <<"p", ";">> : quals \in QualifiedPrefixes}

\* int *c[]; int (*k)(); and their variants
Suffixes == [array |-> <<"[", "]">>, function |-> <<"(", ")">>]
DeclaratorText(stars, inner, suffixes) ==
    Stars(stars)
        \o (IF inner = 0 THEN <<"c">> ELSE <<"(">> \o Stars(inner) \o <<"c", ")">>)
        \o Flatten([i \in 1..Len(suffixes) |-> Suffixes[suffixes[i]]])
DeclaratorInputs ==
    {<<"int">> \o DeclaratorText(stars, inner, suffixes) \o <<";">> :
        stars \in 0..MaxStars, inner \in 0..MaxStars,
        suffixes \in SeqsUpTo({"array", "function"}, MaxSuffixes)}

\* a op1 b op2 c as the one statement of a function body
OperatorLexemes == {lx \in DOMAIN Punctuators : Punctuators[lx] \in BinaryOperators}
ExpressionInput(op1, op2) ==
    FunctionHead \o <<"{", "a", op1, "b", op2, "c", ";", "}">>
ExpressionInputs ==
    {ExpressionInput(op1, op2) : op1 \in OperatorLexemes, op2 \in OperatorLexemes}

Inputs ==
    FixedInputs \cup DeclaratorListInputs \cup QualifiedPointerInputs
        \cup DeclaratorInputs \cup ExpressionInputs
\* the texts given to a parser instance that is used again
ReparseInputs == {EmptyInput, TypedefRoundTrip, Redeclaration, Unclosed, Unopened}

(***************************************************************************)
(* CParser.__init__ and CParser.parse.                                     *)
(***************************************************************************)
\* the rules __init__ creates an optional form for, in its order;
\* _create_opt_rule is called with the global counter, which starts at 0, and
\* hands each generated rule the counter value of its creation
rules_with_opt ==
    << "abstract_declarator", "assignment_expression", "declaration_list",
       "declaration_specifiers", "designation", "expression", "identifier_list",
       "init_declarator_list", "initializer_list", "parameter_type_list",
       "specifier_qualifier_list", "block_item_list", "type_qualifier_list",
       "struct_declarator_list" >>
\* the `counter` captured by the optrule closure of rulename
OptCounter(rulename) ==
    (CHOOSE i \in 1..Len(rules_with_opt) : rules_with_opt[i] = rulename) - 1

\* no declarator is being built in place
NoObjects == [node |-> << >>, decl |-> 0, pointer |-> 0, spliced |-> {}]

Init ==
    /\ _scope_stack = <<EmptyScope>>
    /\ _last_yielded_token = None
    /\ counter = 0 + Len(rules_with_opt)
    /\ tmp = -1
    /\ graph = [nodes |-> 0, edges |-> 0]
    /\ clex = [filename |-> "", input |-> << >>, pos |-> 1, lineno |-> 1,
               last_token |-> None]
    /\ symstack = << >>
    /\ lookahead = None
    /\ pc = "idle"
    /\ outcome = None
    /\ trace = << >>
    /\ first = None
    /\ calls = 0
    /\ objects = NoObjects

\* a variant that leaves the scope stack of the previous call in place
parse_on_old_scopes(text) ==
    /\ pc = "idle"
    /\ calls < MaxParses
    /\ calls > 0 => first.text \in ReparseInputs /\ text \in ReparseInputs
    /\ clex' = [clex EXCEPT !.filename = FileName, !.input = text, !.pos = 1,
                            !.lineno = 1]
    /\ _last_yielded_token' = None
    /\ symstack' = << >>
    /\ lookahead' = None
    /\ pc' = "parsing"
    /\ trace' = << >>
    /\ calls' = calls + 1
    /\ UNCHANGED << _scope_stack, counter, tmp, graph, outcome, first, objects >>

\* parse(text, filename) up to the call of the LR engine
parse(text) ==
    /\ pc = "idle"
    /\ calls < MaxParses
    /\ calls > 0 => first.text \in ReparseInputs /\ text \in ReparseInputs
    /\ clex' = [clex EXCEPT !.filename = FileName, !.input = text, !.pos = 1,
                            !.lineno = 1]
    /\ _scope_stack' = <<EmptyScope>>
    /\ _last_yielded_token' = None
    /\ symstack' = << >>
    /\ lookahead' = None
    /\ pc' = "parsing"
    /\ trace' = << >>
    /\ calls' = calls + 1
    /\ UNCHANGED << counter, tmp, graph, outcome, first, objects >>

\* the engine accepts: parse returns the value of the start symbol and the graph
parse_return ==
    /\ pc = "parsing" /\ ~IsNone(lookahead) /\ Decide = Accept
    /\ Finish(Returned(P(1, 1), graph))
    /\ symstack' = << >>
    /\ lookahead' = None
    /\ UNCHANGED << _scope_stack, _last_yielded_token, counter, tmp, graph, clex,
                    trace, calls, objects >>

\* The engine asks the lexer for its lookahead token: CLexer.token with the
\* callbacks _lex_on_lbrace_func, _lex_on_rbrace_func, _lex_type_lookup_func.
token ==
    /\ pc = "parsing" /\ IsNone(lookahead)
    /\ IF clex.pos > Len(clex.input)
       THEN /\ clex' = [clex EXCEPT !.last_token = None]
            /\ lookahead' = EndToken
            /\ UNCHANGED << _scope_stack, symstack, pc, outcome, trace, first >>
       ELSE LET lx == clex.input[clex.pos]
                popped == _pop_scope(_scope_stack)
                stack == IF lx = "{" THEN _push_scope(_scope_stack)
                         ELSE IF lx = "}" THEN popped.stack
                         ELSE _scope_stack
                type == IF /\ ~IsNone(clex.last_token)
                           /\ clex.last_token.type = "PPPRAGMA"
                           /\ lx \in PragmaStrings
                        THEN "PPPRAGMASTR"
                        ELSE TokenType(_scope_stack, lx)
                tok == Token(type, lx, clex.lineno, clex.pos)
            IN  IF lx = "}" /\ ~IsNone(popped.exc)
                THEN /\ Finish(Raised(popped.exc))
                     /\ symstack' = << >>
                     /\ UNCHANGED << _scope_stack, clex, lookahead, trace >>
                ELSE IF lx \in IllegalCharacters
                THEN /\ Finish(Raised(_lex_error_func("Illegal character %s", lx,
                                                       clex.lineno, find_tok_column(tok))))
                     /\ symstack' = << >>
                     /\ UNCHANGED << _scope_stack, clex, lookahead, trace >>
                ELSE /\ _scope_stack' = stack
                     /\ clex' = [clex EXCEPT !.pos = @ + 1, !.lineno = @ + 1,
                                             !.last_token = tok]
                     /\ lookahead' = tok
                     /\ trace' = Append(trace, tok)
                     /\ UNCHANGED << symstack, pc, outcome, first >>
    /\ UNCHANGED << _last_yielded_token, counter, tmp, graph, calls, objects >>

\* the engine shifts its lookahead token
shift ==
    /\ pc = "parsing" /\ ~IsNone(lookahead) /\ Decide = Shift
    /\ symstack' = Append(symstack,
                          Entry(lookahead.type, Str(lookahead.value), lookahead.lineno))
    /\ lookahead' = None
    /\ UNCHANGED << _scope_stack, _last_yielded_token, counter, tmp, graph, clex, pc,
                    outcome, trace, first, calls, objects >>

\* a variant that discards the offending token and goes on
p_error_recovering ==
    /\ pc = "parsing" /\ ~IsNone(lookahead) /\ Decide = Error
    /\ IF lookahead.type # "$end"
       THEN /\ lookahead' = None
            /\ UNCHANGED << _scope_stack, _last_yielded_token, counter, tmp, graph, clex,
                            symstack, pc, outcome, trace, first, calls, objects >>
       ELSE RaiseWith(_parse_error("At end of input", NoneName, Str(clex.filename)),
                      _scope_stack, 0, 0)

\* no action for the lookahead: the engine calls p_error with the token, or
\* with None at the end of the input
p_error ==
    /\ pc = "parsing" /\ ~IsNone(lookahead) /\ Decide = Error
    /\ LET p == lookahead
       IN  IF p.type # "$end"
           THEN RaiseWith(_parse_error("before: %s", p.value,
                                       Coord(FileName, p.lineno, find_tok_column(p))),
                          _scope_stack, 0, 0)
           ELSE RaiseWith(_parse_error("At end of input", NoneName, Str(clex.filename)),
                          _scope_stack, 0, 0)

p_empty ==
    /\ At("p_empty")
    /\ Reduce(0, "empty", None, 0, 0)

\* the rule `<rulename>_opt : empty | <rulename>` generated by _create_opt_rule
optrule(rulename) ==
    /\ pc = "parsing" /\ ~IsNone(lookahead) /\ Decide = Opt(rulename)
    /\ LET idx == OptCounter(rulename)
           p1 == P(1, 1)
           p0 == IF IsList(p1) THEN ListAppend(p1, NodeRef(idx))
                 ELSE IF IsNone(p1) THEN None
                 ELSE WithRef(p1, NodeRef(idx))
       IN  /\ symstack' = Append(Front(symstack), Entry(rulename \o "_opt", p0, 0))
           /\ tmp' = IF IsNone(p1) THEN tmp - 1 ELSE tmp
           /\ graph' = AddToGraph(IF IsNone(p1) THEN 2 ELSE 1, 1)
           /\ UNCHANGED << _scope_stack, _last_yielded_token, counter, clex, lookahead,
                           pc, outcome, trace, first, calls, objects >>

(***************************************************************************)
(* Productions: translation unit, declarations, specifiers.                *)
(***************************************************************************)
\* list[len(list) - 1] = x
ListSetLast(l, x) == List(SetLast(l.items, x))
\* the list after list.pop()
ListPopped(l) == List(Front(l.items))

p_translation_unit_or_empty ==
    /\ At("p_translation_unit_or_empty")
    /\ IF IsNone(P(1, 1))
       THEN Reduce(1, "translation_unit_or_empty",
                   WithRef(FileAST(<< >>), NewRef(2)), 2, 1)
       ELSE Reduce(1, "translation_unit_or_empty",
                   WithRef(FileAST(ListPopped(P(1, 1)).items), NewRef(1)), 1, 1)

p_translation_unit_1 ==
    /\ At("p_translation_unit_1")
    /\ Reduce(1, "translation_unit", ListSetLast(P(1, 1), NewRef(1)), 1, 1)

p_translation_unit_2 ==
    /\ At("p_translation_unit_2")
    /\ Reduce(2, "translation_unit",
              List(ListPopped(P(2, 1)).items \o ListPopped(P(2, 2)).items
                       \o <<NewRef(1)>>),
              1, 2)

p_external_declaration_1 ==
    /\ At("p_external_declaration_1")
    /\ Reduce(1, "external_declaration", List(<<P(1, 1), NewRef(1)>>), 1, 1)

p_external_declaration_2 ==
    /\ At("p_external_declaration_2")
    /\ Reduce(1, "external_declaration", ListSetLast(P(1, 1), NewRef(1)), 1, 1)

p_external_declaration_3 ==
    /\ At("p_external_declaration_3")
    /\ RaiseWith(_parse_error("Directives not supported yet", NoneName,
                              _coord(PLineno(1, 1))),
                 _scope_stack, 0, 0)

p_pp_directive ==
    /\ At("p_pp_directive")
    /\ RaiseWith(_parse_error("Directives not supported yet", NoneName,
                              _coord(PLineno(1, 1))),
                 _scope_stack, 0, 0)

p_pppragma_directive ==
    /\ At("p_pppragma_directive")
    /\ IF Sym(1) = "PPPRAGMASTR"
       THEN Reduce(2, "pppragma_directive",
                   WithRef(Pragma(P(2, 2).s, _coord(PLineno(2, 2))), NewRef(3)), 3, 2)
       ELSE Reduce(1, "pppragma_directive",
                   WithRef(Pragma("", _coord(PLineno(1, 1))), NewRef(2)), 2, 1)

p_function_definition_2 ==
    /\ At("p_function_definition_2")
    /\ LET built == _build_function_definition(_scope_stack, P(4, 1), P(4, 2),
                                               P(4, 3), P(4, 4))
       IN  IF ~IsNone(built.exc)
           THEN RaiseWith(built.exc, built.stack, 0, 0)
           ELSE ReduceWith(built.stack, 4, "function_definition",
                           WithRef(built.node, NewRef(1)), 0, 1, 4)

p_decl_body ==
    /\ At("p_decl_body")
    /\ LET spec == P(2, 1)
           ty == spec.type
           built ==
               IF IsNone(P(2, 2))
               THEN IF Len(ty) = 1 /\ ty[1].k \in {"Struct", "Union", "Enum"}
                    THEN [exc |-> None, stack |-> _scope_stack,
                          declarations |->
                              <<Decl(NoneName, spec.qual, spec.storage, spec.function,
                                     ty[1], None, None, ty[1].coord)>>]
                    ELSE _build_declarations(_scope_stack, spec,
                                             <<DeclDict(None, None, None)>>, TRUE)
               ELSE _build_declarations(_scope_stack, spec, P(2, 2).items, TRUE)
       IN  IF ~IsNone(built.exc)
           THEN RaiseWith(built.exc, built.stack, 0, 0)
           ELSE ReduceWith(built.stack, 2, "decl_body",
                           List(Append(built.declarations, NewRef(1))), 0, 1, 2)

p_declaration ==
    /\ At("p_declaration")
    /\ Reduce(2, "declaration", ListAppend(P(2, 1), NewRef(2)), 2, 2)

p_declaration_list ==
    /\ At("p_declaration_list")
    /\ IF Sym(2) = "declaration_list"
       THEN Reduce(2, "declaration_list",
                   List(P(2, 1).items \o P(2, 2).items \o <<NewRef(1)>>), 1, 2)
       ELSE Reduce(1, "declaration_list", ListAppend(P(1, 1), NewRef(1)), 1, 1)

p_declaration_specifiers_2 ==
    /\ At("p_declaration_specifiers_2")
    /\ Reduce(2, "declaration_specifiers",
              WithRef(_add_declaration_specifier(P(2, 2), P(2, 1), "type"), NewRef(1)),
              1, 2)

p_declaration_specifiers_3 ==
    /\ At("p_declaration_specifiers_3")
    /\ Reduce(2, "declaration_specifiers",
              WithRef(_add_declaration_specifier(P(2, 2), Split0(P(2, 1)), "storage"),
                      NewRef(1)),
              1, 2)

p_storage_class_specifier ==
    /\ At("p_storage_class_specifier")
    /\ Reduce(1, "storage_class_specifier", StrAt(P(1, 1).s, NewRef(2).n), 2, 1)

p_type_specifier_1 ==
    /\ At("p_type_specifier_1")
    /\ Reduce(1, "type_specifier",
              WithRef(IdentifierType(<<P(1, 1).s>>, _coord(PLineno(1, 1))), NewRef(2)),
              2, 1)

p_type_specifier_2 ==
    /\ At("p_type_specifier_2")
    /\ Reduce(1, "type_specifier", WithRef(P(1, 1), NewRef(1)), 1, 1)

p_enum_specifier_2 ==
    /\ At("p_enum_specifier_2")
    /\ Reduce(4, "enum_specifier",
              WithRef(Enum(NoneName, P(4, 3), _coord(PLineno(4, 1))), NewRef(2)), 2, 4)

p_enumerator_list ==
    /\ At("p_enumerator_list")
    /\ IF Sym(1) = "COMMA"
       THEN Reduce(2, "enumerator_list", WithRef(P(2, 1), NewRef(2)), 2, 2)
       ELSE IF Sym(2) = "COMMA"
       THEN Reduce(3, "enumerator_list",
                   WithRef([P(3, 1) EXCEPT !.enumerators = Append(@, P(3, 3))], NewRef(2)),
                   2, 3)
       ELSE Reduce(1, "enumerator_list",
                   WithRef(EnumeratorList(<<P(1, 1)>>, P(1, 1).coord), NewRef(1)), 1, 1)

p_enumerator ==
    /\ At("p_enumerator")
    /\ LET valued == Sym(1) = "constant_expression"
           n == IF valued THEN 3 ELSE 1
           enumerator == Enumerator(P(n, 1).s, IF valued THEN P(n, 3) ELSE None,
                                    _coord(PLineno(n, 1)))
           added == _add_identifier(_scope_stack, enumerator.name, enumerator.coord)
       IN  IF ~IsNone(added.exc)
           THEN RaiseWith(added.exc, added.stack, IF valued THEN 3 ELSE 2, n)
           ELSE ReduceWith(added.stack, n, "enumerator",
                           WithRef(enumerator, NewRef(IF valued THEN 3 ELSE 2)), 0,
                           IF valued THEN 3 ELSE 2, n)

p_typedef_name ==
    /\ At("p_typedef_name")
    /\ Reduce(1, "typedef_name",
              WithRef(IdentifierType(<<P(1, 1).s>>, _coord(PLineno(1, 1))), NewRef(2)),
              2, 1)

p_init_declarator ==
    /\ At("p_init_declarator")
    /\ IF Sym(1) = "initializer"
       THEN Reduce(3, "init_declarator",
                   WithRef(DeclDict(P(3, 1), P(3, 3), None), NewRef(2)), 2, 3)
       ELSE Reduce(1, "init_declarator",
                   WithRef(DeclDict(P(1, 1), None, None), NewRef(1)), 1, 1)

\* `counter` is assigned in the function without being declared global: the
\* first read of it raises UnboundLocalError
p_init_declarator_list_2 ==
    /\ At("p_init_declarator_list_2")
    /\ RaiseWith(PyError("UnboundLocalError"), _scope_stack, 0, 0)

p_initializer_1 ==
    /\ At("p_initializer_1")
    /\ Reduce(1, "initializer", WithRef(P(1, 1), NewRef(1)), 1, 1)

p_init_declarator_list_1 ==
    /\ At("p_init_declarator_list_1")
    /\ IF Sym(2) = "COMMA"
       THEN Reduce(3, "init_declarator_list",
                   List(P(3, 1).items \o <<P(3, 3), NewRef(2)>>), 2, 3)
       ELSE Reduce(1, "init_declarator_list", List(<<P(1, 1), NewRef(1)>>), 1, 1)

(***************************************************************************)
(* Productions: declarators.                                               *)
(***************************************************************************)
p_declarator_1 ==
    /\ At("p_declarator_1")
    /\ Reduce(1, "declarator", WithRef(P(1, 1), NewRef(1)), 1, 1)

p_declarator_2 ==
    /\ At("p_declarator_2")
    /\ Reduce(2, "declarator",
              WithRef(_type_modify_decl(P(2, 2), P(2, 1)), NewRef(1)), 1, 2)

p_direct_declarator_1 ==
    /\ At("p_direct_declarator_1")
    /\ Reduce(1, "direct_declarator",
              WithRef(TypeDecl(P(1, 1).s, None, None, _coord(PLineno(1, 1))), NewRef(2)),
              2, 1)

p_direct_declarator_2 ==
    /\ At("p_direct_declarator_2")
    /\ Reduce(3, "direct_declarator", WithRef(P(3, 2), NewRef(3)), 3, 3)

\* `x or []` for a list or None x
OrEmptyList(x) == IF IsNone(x) \/ x.items = << >> THEN << >> ELSE x.items

p_direct_declarator_3 ==
    /\ At("p_direct_declarator_3")
    /\ LET arr == ArrayDecl(None, P(5, 4), OrEmptyList(P(5, 3)), P(5, 1).coord, Str("tmp"))
       IN  Reduce(5, "direct_declarator",
                  WithRef(_type_modify_decl(P(5, 1), arr), NewRef(3)), 3, 5)

p_direct_abstract_declarator_3 ==
    /\ At("p_direct_abstract_declarator_3")
    /\ LET arr == ArrayDecl(TypeDecl(NoneName, None, None, None), P(3, 2), << >>,
                            _coord(PLineno(3, 1)), None)
       IN  Reduce(3, "direct_abstract_declarator", WithRef(arr, NewRef(3)), 3, 3)

p_abstract_declarator_3 ==
    /\ At("p_abstract_declarator_3")
    /\ Reduce(1, "abstract_declarator", WithRef(P(1, 1), NewRef(1)), 1, 1)

\* `counter` is assigned in the function without being declared global: the
\* first read of it raises UnboundLocalError
p_init_declarator_list_3 ==
    /\ At("p_init_declarator_list_3")
    /\ RaiseWith(PyError("UnboundLocalError"), _scope_stack, 0, 0)

\* `for param in func.args.params: self._add_identifier(param.name, param.coord)`
\* from position i on
RECURSIVE AddParams(_, _, _)
AddParams(stack, params, i) ==
    IF i > Len(params) \/ params[i].k = "EllipsisParam"
    THEN [exc |-> None, stack |-> stack]
    ELSE LET added == _add_identifier(stack, params[i].name, params[i].coord)
         IN  IF ~IsNone(added.exc) THEN added
             ELSE AddParams(added.stack, params, i + 1)

p_parameter_type_list ==
    /\ At("p_parameter_type_list")
    /\ IF Sym(1) = "ELLIPSIS"
       THEN Reduce(3, "parameter_type_list",
                   WithRef([P(3, 1) EXCEPT
                               !.params = Append(@, EllipsisParam(_coord(PLineno(3, 3))))],
                           NewRef(3)),
                   3, 3)
       ELSE Reduce(1, "parameter_type_list", WithRef(P(1, 1), NewRef(1)), 1, 1)

p_parameter_list ==
    /\ At("p_parameter_list")
    /\ IF Sym(2) = "COMMA"
       THEN Reduce(3, "parameter_list",
                   WithRef([P(3, 1) EXCEPT !.params = Append(@, P(3, 3))], NewRef(2)),
                   2, 3)
       ELSE Reduce(1, "parameter_list",
                   WithRef(ParamList(<<P(1, 1)>>, P(1, 1).coord), NewRef(1)), 1, 1)

p_parameter_declaration_1 ==
    /\ At("p_parameter_declaration_1")
    /\ LET spec == IF P(2, 1).type = << >>
                   THEN [P(2, 1) EXCEPT
                            !.type = <<IdentifierType(<<"int">>, _coord(PLineno(2, 1)))>>]
                   ELSE P(2, 1)
           a == _build_declarations(_scope_stack, spec, <<DeclDict(P(2, 2), None, None)>>,
                                    FALSE)
       IN  IF ~IsNone(a.exc)
           THEN RaiseWith(a.exc, a.stack, 0, 0)
           ELSE ReduceWith(a.stack, 2, "parameter_declaration",
                           WithRef(a.declarations[1], NewRef(1)), 0, 1, 2)

\* a variant that reads the parser's own record of the last token
_get_last_yielded_token == _last_yielded_token

\* self.clex.last_token
_get_yacc_lookahead_token == clex.last_token

p_direct_declarator_6 ==
    /\ At("p_direct_declarator_6")
    /\ LET func == FuncDecl(P(4, 3), None, P(4, 1).coord)
           added == IF _get_yacc_lookahead_token.type = "LBRACE" /\ ~IsNone(func.args)
                    THEN AddParams(_scope_stack, func.args.params, 1)
                    ELSE [exc |-> None, stack |-> _scope_stack]
       IN  IF IsNone(_get_yacc_lookahead_token)
           THEN RaiseWith(PyError("AttributeError"), _scope_stack, 0, 0)
           ELSE IF ~IsNone(added.exc)
           THEN RaiseWith(added.exc, added.stack, 0, 0)
           ELSE ReduceWith(added.stack, 4, "direct_declarator",
                           WithRef(_type_modify_decl(P(4, 1), func), NewRef(3)),
                           0, 3, 4)

p_pointer ==
    /\ At("p_pointer")
    /\ IF Sym(1) = "pointer"
       THEN LET nested_type == PtrDecl(OrEmptyList(P(3, 2)), None, _coord(PLineno(3, 1)))
            IN  Reduce(3, "pointer",
                       WithRef(SetModifierTail(P(3, 3), nested_type), NewRef(2)), 2, 3)
       ELSE LET nested_type == PtrDecl(OrEmptyList(P(2, 2)), None, _coord(PLineno(2, 1)))
            IN  Reduce(2, "pointer", WithRef(nested_type, NewRef(2)), 2, 2)

p_type_qualifier ==
    /\ At("p_type_qualifier")
    /\ Reduce(1, "type_qualifier", StrAt(P(1, 1).s, NewRef(2).n), 2, 1)

\* the value is the one of the last statement of the handler,
\* `p[0] = [p[1]] if len(p) == 2 else p[1] + [p[2]]`, evaluated after p[1] and
\* p[2] were replaced by their text and after p[1].pop()
p_type_qualifier_list ==
    /\ At("p_type_qualifier_list")
    /\ IF Sym(2) = "type_qualifier_list"
       THEN Reduce(2, "type_qualifier_list",
                   List(ListPopped(P(2, 1)).items \o <<Split0(P(2, 2))>>), 1, 2)
       ELSE Reduce(1, "type_qualifier_list", List(<<Split0(P(1, 1))>>), 1, 1)

p_identifier_list ==
    /\ At("p_identifier_list")
    /\ IF Sym(2) = "COMMA"
       THEN Reduce(3, "identifier_list",
                   WithRef([P(3, 1) EXCEPT !.params = Append(@, P(3, 3))], NewRef(2)),
                   2, 3)
       ELSE Reduce(1, "identifier_list",
                   WithRef(ParamList(<<P(1, 1)>>, P(1, 1).coord), NewRef(1)), 1, 1)

p_identifier ==
    /\ At("p_identifier")
    /\ Reduce(1, "identifier", WithRef(ID(P(1, 1).s, _coord(PLineno(1, 1))), NewRef(2)),
              2, 1)

(***************************************************************************)
(* Productions: function bodies and statements.                            *)
(***************************************************************************)
p_brace_open ==
    /\ At("p_brace_open")
    /\ ReduceWith(_scope_stack, 1, "brace_open", StrAt(P(1, 1).s, NewRef(2).n),
                  PLineno(1, 1), 2, 1)

p_brace_close ==
    /\ At("p_brace_close")
    /\ ReduceWith(_scope_stack, 1, "brace_close", StrAt(P(1, 1).s, NewRef(2).n),
                  PLineno(1, 1), 2, 1)

p_compound_statement_1 ==
    /\ At("p_compound_statement_1")
    /\ Reduce(3, "compound_statement",
              WithRef(Compound(P(3, 2), _coord(PLineno(3, 1))), NewRef(1)), 1, 3)

p_block_item ==
    /\ At("p_block_item")
    /\ IF IsList(P(1, 1))
       THEN Reduce(1, "block_item", ListSetLast(P(1, 1), NewRef(1)), 1, 1)
       ELSE Reduce(1, "block_item", List(<<P(1, 1), NewRef(1)>>), 1, 1)

p_block_item_list ==
    /\ At("p_block_item_list")
    /\ IF Sym(2) # "block_item_list" \/ P(1, 1).items = <<None>>
       THEN LET n == IF Sym(2) = "block_item_list" THEN 2 ELSE 1
            IN  Reduce(n, "block_item_list", ListSetLast(P(n, 1), NewRef(1)), 1, 1)
       ELSE Reduce(2, "block_item_list",
                   ListSetLast(List(ListPopped(P(2, 1)).items \o P(2, 2).items),
                               NewRef(1)),
                   1, 2)

p_statement ==
    /\ At("p_statement")
    /\ Reduce(1, "statement", WithRef(P(1, 1), NewRef(1)), 1, 1)

p_expression_statement ==
    /\ At("p_expression_statement")
    /\ IF IsNone(P(2, 1))
       THEN Reduce(2, "expression_statement",
                   WithRef(EmptyStatement(_coord(PLineno(2, 2))), NewRef(2)), 2, 1)
       ELSE Reduce(2, "expression_statement", WithRef(P(2, 1), NewRef(2)), 2, 2)

(***************************************************************************)
(* Productions: expressions.                                               *)
(***************************************************************************)
\* `p[0] = p[1]` with a new graph node above the one of p[1]
Passed == WithRef(P(1, 1), NewRef(1))

p_expression ==
    /\ At("p_expression")
    /\ Reduce(1, "expression", Passed, 1, 1)

p_assignment_expression ==
    /\ At("p_assignment_expression")
    /\ Reduce(1, "assignment_expression", Passed, 1, 1)

p_constant_expression ==
    /\ At("p_constant_expression")
    /\ Reduce(1, "constant_expression", Passed, 1, 1)

p_conditional_expression ==
    /\ At("p_conditional_expression")
    /\ Reduce(1, "conditional_expression", Passed, 1, 1)

p_cast_expression_1 ==
    /\ At("p_cast_expression_1")
    /\ Reduce(1, "cast_expression", Passed, 1, 1)

p_unary_expression_1 ==
    /\ At("p_unary_expression_1")
    /\ Reduce(1, "unary_expression", Passed, 1, 1)

p_postfix_expression_1 ==
    /\ At("p_postfix_expression_1")
    /\ Reduce(1, "postfix_expression", Passed, 1, 1)

p_primary_expression_1 ==
    /\ At("p_primary_expression_1")
    /\ Reduce(1, "primary_expression", Passed, 1, 1)

p_binary_expression ==
    /\ At("p_binary_expression")
    /\ IF Sym(1) = "cast_expression"
       THEN Reduce(1, "binary_expression", Passed, 1, 1)
       ELSE Reduce(3, "binary_expression",
                   WithRef(BinaryOp(P(3, 2).s, P(3, 1), P(3, 3), P(3, 1).coord),
                           NewRef(2)),
                   2, 3)

Next ==
    \/ \E text \in Inputs : parse(text)
    \/ token
    \/ shift
    \/ parse_return
    \/ p_error
    \/ p_empty
    \/ \E i \in 1..Len(rules_with_opt) : optrule(rules_with_opt[i])
    \/ p_translation_unit_or_empty
    \/ p_translation_unit_1
    \/ p_translation_unit_2
    \/ p_external_declaration_1
    \/ p_external_declaration_2
    \/ p_external_declaration_3
    \/ p_pp_directive
    \/ p_pppragma_directive
    \/ p_function_definition_2
    \/ p_decl_body
    \/ p_declaration
    \/ p_declaration_list
    \/ p_declaration_specifiers_2
    \/ p_declaration_specifiers_3
    \/ p_storage_class_specifier
    \/ p_type_specifier_1
    \/ p_type_specifier_2
    \/ p_typedef_name
    \/ p_init_declarator
    \/ p_init_declarator_list_1
    \/ p_init_declarator_list_2
    \/ p_initializer_1
    \/ p_declarator_1
    \/ p_declarator_2
    \/ p_direct_declarator_1
    \/ p_direct_declarator_2
    \/ p_direct_declarator_3
    \/ p_direct_declarator_6
    \/ p_direct_abstract_declarator_3
    \/ p_abstract_declarator_3
    \/ p_init_declarator_list_3
    \/ p_enum_specifier_2
    \/ p_enumerator_list
    \/ p_enumerator
    \/ p_constant_expression
    \/ p_parameter_type_list
    \/ p_parameter_list
    \/ p_parameter_declaration_1
    \/ p_pointer
    \/ p_type_qualifier
    \/ p_type_qualifier_list
    \/ p_identifier_list
    \/ p_identifier
    \/ p_brace_open
    \/ p_brace_close
    \/ p_compound_statement_1
    \/ p_block_item
    \/ p_block_item_list
    \/ p_statement
    \/ p_expression_statement
    \/ p_expression
    \/ p_assignment_expression
    \/ p_conditional_expression
    \/ p_binary_expression
    \/ p_cast_expression_1
    \/ p_unary_expression_1
    \/ p_postfix_expression_1
    \/ p_primary_expression_1

Spec == Init /\ [][Next]_vars

\* Inside a parse call the engine always has a step to take.
EngineNeverStuck == pc = "parsing" => ENABLED Next

(***************************************************************************)
(* Properties of the typedef-name bookkeeping.                             *)
(***************************************************************************)
\* the names of the Typedef nodes in the list v of a decl_body
TypedefNames(v) ==
    {v.items[i].name : i \in {j \in 1..Len(v.items) : v.items[j].k = "Typedef"}}

\* the parse call on text has ended
Parsed(text) == pc = "idle" /\ calls > 0 /\ clex.input = text

\* the first index of lexeme lx in text after position from (0 if none)
IndexAfter(text, lx, from) ==
    LET found == {i \in (from + 1)..Len(text) : text[i] = lx}
    IN  IF found = {} THEN 0 ELSE SetMin(found)

\* while the decl_body of a typedef declaration is on top of the stack its
\* names are types of the innermost scope, the lookahead is the ';' and the
\* lexer has not gone past it
C1_Registered ==
    (pc = "parsing" /\ Sym(1) = "decl_body") =>
        \A name \in TypedefNames(P(1, 1)) :
            /\ name \in DOMAIN Last(_scope_stack)
            /\ Last(_scope_stack)[name]
            /\ lookahead.type = "SEMI"
            /\ clex.pos = lookahead.pos + 1

\* the token issued right after the ';' of a typedef declaration is a TYPEID
\* when it spells one of the names declared
C1_NextToken ==
    (/\ pc = "parsing" /\ IsNone(lookahead) /\ ~IsNone(lookahead')
     /\ Sym(1) = "SEMI" /\ Sym(2) = "decl_body"
     /\ lookahead'.value \in TypedefNames(P(2, 1)))
        => lookahead'.type = "TYPEID"

C1_RoundTrip ==
    \A text \in {TypedefRoundTrip, TypedefPointer} :
        Parsed(text) =>
            /\ outcome.k = "returned"
            /\ \E i \in 1..Len(outcome.ast.ext) :
                  LET d == outcome.ast.ext[i]
                  IN  /\ d.k = "Decl"
                      /\ d.name = "v"
                      /\ d.type.k = "TypeDecl"
                      /\ d.type.type.k = "IdentifierType"
                      /\ d.type.type.names = <<"myint">>

\* C1: a typedef declaration's name is registered as a type in the innermost
\* scope when its decl_body is reduced, before the lexer classifies the token
\* after the ';'; an identifier of that name right after the ';' is therefore
\* a type name, and `typedef int myint; myint v;` parses to a Decl named v
\* whose base type is IdentifierType(['myint']).
C1_TypedefRegisteredBeforeNextToken ==
    /\ []C1_Registered
    /\ [][C1_NextToken]_vars
    /\ []C1_RoundTrip

C1_Witness ==
    /\ Parsed(TypedefRoundTrip)
    /\ outcome.k = "returned"
    /\ Len(trace) = Len(TypedefRoundTrip)
    /\ trace[5].value = "myint"
    /\ trace[5].type = "TYPEID"

(***************************************************************************)
(* Properties of scoped shadowing.                                         *)
(***************************************************************************)
SetMax(S) == CHOOSE x \in S : \A y \in S : y <= x

\* the scopes below scope d of stack hold name, the innermost of them as a
\* typedef name
TypeBelow(stack, d, name) ==
    LET held == {e \in 1..(d - 1) : name \in DOMAIN stack[e]}
    IN  held # {} /\ stack[SetMax(held)][name]

\* scope d of stack redeclares as an ordinary identifier a name that is a
\* typedef name of an outer scope
Shadowed(stack, d, name) ==
    /\ d \in 2..Len(stack)
    /\ name \in DOMAIN stack[d]
    /\ ~stack[d][name]
    /\ TypeBelow(stack, d, name)

Names(stack) == UNION {DOMAIN stack[d] : d \in 1..Len(stack)}

\* a name shadowed in the innermost scope that holds it is not a type
C2_Hidden ==
    \A d \in 2..Len(_scope_stack) : \A name \in DOMAIN _scope_stack[d] :
        (/\ Shadowed(_scope_stack, d, name)
         /\ \A e \in (d + 1)..Len(_scope_stack) : name \notin DOMAIN _scope_stack[e])
            => ~_is_type_in_scope(_scope_stack, name)

C2_Step ==
    calls' = calls =>
        \* only the innermost scope is ever written
        /\ \A d \in 1..(Len(_scope_stack) - 1) :
              d <= Len(_scope_stack') => _scope_stack'[d] = _scope_stack[d]
        \* a shadowing entry stays for as long as its scope is open
        /\ \A d \in 2..Len(_scope_stack) : \A name \in DOMAIN _scope_stack[d] :
              (Shadowed(_scope_stack, d, name) /\ Len(_scope_stack') >= d)
                  => Shadowed(_scope_stack', d, name)
        \* the '}' of the shadowing scope makes the name a type again
        /\ \A name \in Names(_scope_stack) :
              (/\ Shadowed(_scope_stack, Len(_scope_stack), name)
               /\ Len(_scope_stack') < Len(_scope_stack))
                  => _is_type_in_scope(_scope_stack', name)
        \* an identifier is classified by is_type_in_scope at the moment its
        \* token is issued
        /\ (/\ pc = "parsing" /\ IsNone(lookahead) /\ ~IsNone(lookahead')
            /\ lookahead'.type \in {"ID", "TYPEID"})
              => (lookahead'.type = "TYPEID")
                     = _is_type_in_scope(_scope_stack, lookahead'.value)

\* `typedef int T; int f() { int T; ... T ... } T ...`: the tokens T issued
\* after the redeclaration and before the '}' are identifiers, those issued
\* after the '}' are type names
C2_Trace ==
    \A text \in {Shadowing, ShadowingMisuse} :
        (calls > 0 /\ clex.input = text) =>
            LET open == IndexAfter(text, "{", 0)
                redeclared == IndexAfter(text, "T", open)
                close == IndexAfter(text, "}", open)
            IN  \A i \in 1..Len(trace) :
                    trace[i].value = "T" =>
                        /\ (redeclared < i /\ i < close) => trace[i].type = "ID"
                        /\ close < i => trace[i].type = "TYPEID"

\* C2: once a typedef name T of an outer scope is redeclared as an ordinary
\* identifier in a brace-delimited inner scope, is_type_in_scope(T) is false
\* for every token classified up to the matching '}' and true again for every
\* token classified after it, and the outer scope's entry for T is never
\* modified.
C2_ShadowingEndsWithItsScope ==
    /\ []C2_Hidden
    /\ [][C2_Step]_vars
    /\ []C2_Trace

C2_Witness ==
    /\ Parsed(Shadowing)
    /\ outcome.k = "returned"
    /\ Len(trace) = Len(Shadowing)
    /\ trace[14].value = "T" /\ trace[14].type = "ID"
    /\ trace[17].value = "T" /\ trace[17].type = "TYPEID"
    /\ _scope_stack[1]["T"]

(***************************************************************************)
(* Properties of redeclaration conflicts.                                  *)
(***************************************************************************)
\* C3: declaring a name as an ordinary identifier in a scope that records it
\* as a typedef fails with a declaration error naming the identifier, and no
\* declaration node is returned.
C3_RedeclarationFailsNamingIdentifier ==
    \A text \in {Redeclaration, RedeclarationInBlock, RedeclarationInitialized} :
        Parsed(text) =>
            /\ outcome.k = "raised"
            /\ outcome.exc.k = "ParseError"
            /\ outcome.exc.name = "T"

(***************************************************************************)
(* Properties of declarations and declarators.                             *)
(***************************************************************************)
Finished == pc = "idle" /\ calls > 0

\* the kinds of the nodes of a declarator chain, from its root to its
\* TypeDecl (or to its open end)
RECURSIVE Kinds(_)
Kinds(n) ==
    IF n.k = "None" THEN << >>
    ELSE IF n.k = "TypeDecl" THEN <<"TypeDecl">>
    ELSE <<n.k>> \o Kinds(n.type)

\* the node at depth j of a declarator chain, the root being at depth 1
RECURSIVE ChainAt(_, _)
ChainAt(n, j) == IF j = 1 THEN n ELSE ChainAt(n.type, j - 1)

Repeat(x, n) == [i \in 1..n |-> x]

\* C4: a declaration with n declarators yields exactly n Decl nodes in source
\* order, and the declaration sequence of the parse result holds exactly these
\* nodes and no other element.
C4_ExactlyOneDeclPerDeclarator ==
    Finished =>
        \A stars \in StarLists :
            clex.input = DeclaratorList(stars) =>
                /\ outcome.k = "returned"
                /\ Len(outcome.ast.ext) = Len(stars)
                /\ \A i \in 1..Len(stars) :
                      LET d == outcome.ast.ext[i]
                      IN  /\ d.k = "Decl"
                          /\ d.name = DeclNames[i]
                          /\ Kinds(d.type) = Repeat("PtrDecl", stars[i]) \o <<"TypeDecl">>

\* the qualifiers as the text of a pointer prefix spells them
Spelled(quals) == [j \in 1..Len(quals) |-> Str(quals[j])]

\* C5: the i-th of k stars becomes the PtrDecl at depth k-i+1, and each
\* PtrDecl carries exactly the qualifiers written after its own star.
C5_PointerCarriesItsQualifiers ==
    Finished =>
        \A quals \in QualifiedPrefixes :
            clex.input = <<"char">> \o PointerPrefix(quals) \o <<"p", ";">> =>
                /\ outcome.k = "returned"
                /\ outcome.ast.ext[1].k = "Decl"
                /\ Kinds(outcome.ast.ext[1].type)
                       = Repeat("PtrDecl", Len(quals)) \o <<"TypeDecl">>
                /\ \A i \in 1..Len(quals) :
                      ChainAt(outcome.ast.ext[1].type, Len(quals) - i + 1).quals
                          = Spelled(quals[i])

\* the value the production that is being reduced leaves on the stack
Produced == symstack'[Len(symstack')].val

\* every application of _type_modify_decl by a declarator production puts the
\* modifier (or the pointer chain) right above the TypeDecl, below the
\* modifiers applied before
C6_Step ==
    /\ (At("p_declarator_2") /\ pc' = "parsing") =>
           Kinds(Produced) = Front(Kinds(P(2, 2))) \o Kinds(P(2, 1)) \o <<"TypeDecl">>
    /\ (At("p_direct_declarator_3") /\ pc' = "parsing") =>
           Kinds(Produced) = Front(Kinds(P(5, 1))) \o <<"ArrayDecl", "TypeDecl">>
    /\ (At("p_direct_declarator_6") /\ pc' = "parsing") =>
           Kinds(Produced) = Front(Kinds(P(4, 1))) \o <<"FuncDecl", "TypeDecl">>

SuffixKinds == [array |-> "ArrayDecl", function |-> "FuncDecl"]

\* `*..* ( *..* c ) suffixes` declares c as: pointers of the group, then the
\* suffixes from left to right, then the pointers of the prefix
C6_DeclaredOrder ==
    Finished =>
        \A stars \in 0..MaxStars, inner \in 0..MaxStars,
           suffixes \in SeqsUpTo({"array", "function"}, MaxSuffixes) :
            clex.input = <<"int">> \o DeclaratorText(stars, inner, suffixes) \o <<";">> =>
                /\ outcome.k = "returned"
                /\ outcome.ast.ext[1].k = "Decl"
                /\ outcome.ast.ext[1].name = "c"
                /\ Kinds(outcome.ast.ext[1].type)
                       = Repeat("PtrDecl", inner)
                             \o [i \in 1..Len(suffixes) |-> SuffixKinds[suffixes[i]]]
                             \o Repeat("PtrDecl", stars) \o <<"TypeDecl">>

\* C6: the chain built by repeated _type_modify_decl reads from root to leaf
\* in C's declared-type order: every new modifier goes right above the
\* TypeDecl and below the modifiers applied earlier (`int *c[]` gives
\* ArrayDecl -> PtrDecl -> TypeDecl, `int (*c)()` PtrDecl -> FuncDecl ->
\* TypeDecl).
C6_ChainInDeclaredTypeOrder ==
    /\ [][C6_Step]_vars
    /\ []C6_DeclaredOrder

C6_Witness ==
    /\ Parsed(<<"int", "*", "c", "[", "]", ";">>)
    /\ outcome.k = "returned"
    /\ Kinds(outcome.ast.ext[1].type) = <<"ArrayDecl", "PtrDecl", "TypeDecl">>

(***************************************************************************)
(* Properties of expressions.                                              *)
(***************************************************************************)
\* the levels of the binary operators as the specification lists them, from
\* the lowest to the highest
StatedLevels ==
    << {"||"}, {"&&"}, {"|"}, {"^"}, {"&"}, {"==", "!="}, {"<", "<=", ">=", ">"},
       {"<<", ">>"}, {"+", "-"}, {"*", "/", "%"} >>
StatedLevel(op) == CHOOSE i \in 1..Len(StatedLevels) : op \in StatedLevels[i]

\* an expression without its coordinates and graph references
RECURSIVE Shape(_)
Shape(e) ==
    IF e.k = "BinaryOp"
    THEN [op |-> e.op, left |-> Shape(e.left), right |-> Shape(e.right)]
    ELSE [id |-> e.name]

Operand(name) == [id |-> name]
Operation(op, left, right) == [op |-> op, left |-> left, right |-> right]

\* the expression statement of `int f() { <expression> ; }`
Statement == outcome.ast.ext[1].body.block_items.items[1]

\* C7: `a op1 b op2 c` parses to BinaryOp(op1, a, BinaryOp(op2, b, c)) when
\* op2 has strictly higher precedence than op1 and to
\* BinaryOp(op2, BinaryOp(op1, a, b), c) otherwise, the levels being, lowest
\* first: ||, &&, |, ^, &, ==/!=, relational, shift, additive, multiplicative.
C7_PrecedenceAndLeftAssociativity ==
    Finished =>
        \A op1 \in OperatorLexemes, op2 \in OperatorLexemes :
            clex.input = ExpressionInput(op1, op2) =>
                /\ outcome.k = "returned"
                /\ Shape(Statement) =
                       IF StatedLevel(op2) > StatedLevel(op1)
                       THEN Operation(op1, Operand("a"),
                                      Operation(op2, Operand("b"), Operand("c")))
                       ELSE Operation(op2,
                                      Operation(op1, Operand("a"), Operand("b")),
                                      Operand("c"))

C7_Witness ==
    /\ Parsed(ExpressionInput("+", "*"))
    /\ outcome.k = "returned"
    /\ Statement.op = "+"
    /\ Statement.right.k = "BinaryOp"
    /\ Statement.right.op = "*"

(***************************************************************************)
(* Properties of K&R function definitions.                                 *)
(***************************************************************************)
\* C8: the FuncDecl of a K&R definition has as its parameters the entries of
\* the declaration list, matched against the identifier list: for
\* `int f(a, b) int a, b; { }` two int-typed parameters named a and b.
C8_KandRParametersAreDeclarations ==
    Finished =>
        \A text \in {KandR, KandRSplit} :
            clex.input = text =>
                /\ outcome.k = "returned"
                /\ outcome.ast.ext[1].k = "FuncDef"
                /\ outcome.ast.ext[1].decl.type.k = "FuncDecl"
                /\ LET params == outcome.ast.ext[1].decl.type.args.params
                   IN  /\ Len(params) = 2
                       /\ \A i \in 1..2 :
                             /\ params[i].k = "Decl"
                             /\ params[i].name = <<"a", "b">>[i]
                             /\ params[i].type.type.names = <<"int">>

(***************************************************************************)
(* Properties of the parser instance across parse calls.                   *)
(***************************************************************************)
\* C9: every parse call starts with the scope stack equal to one empty scope
\* and the remembered last-lookahead token cleared, whatever the earlier
\* calls on the instance left behind.
C9_ParseStartsFromOneEmptyScope ==
    [][calls' # calls =>
          /\ pc' = "parsing"
          /\ _scope_stack' = <<EmptyScope>>
          /\ IsNone(_last_yielded_token')]_vars

C9_Witness ==
    /\ calls = 2
    /\ pc = "parsing"
    /\ trace = << >>
    /\ first.text = Unclosed
    /\ first.outcome.k = "raised"
    /\ first.scopes = 2
    /\ _scope_stack = <<EmptyScope>>

\* C10: the result of parse (the tree with everything attached to its nodes,
\* and whatever else parse returns) is the same on a fresh instance and on
\* one that has been used before.
C10_SameResultOnReusedInstance ==
    (Finished /\ calls = 2 /\ clex.input = first.text) => outcome = first.outcome

(***************************************************************************)
(* Properties of error handling.                                           *)
(***************************************************************************)
\* the lexeme the lexer would look at next, "" at the end of the text
NextLexeme == IF clex.pos > Len(clex.input) THEN "" ELSE clex.input[clex.pos]

\* the engine is at a point where the code raises: an illegal character, a
\* token without an action, a directive, a name declared against its typedef
TokenErrorSite == pc = "parsing" /\ IsNone(lookahead) /\ NextLexeme \in IllegalCharacters
SyntaxErrorSite == pc = "parsing" /\ ~IsNone(lookahead) /\ Decide = Error
UnsupportedSite == At("p_pp_directive") \/ At("p_external_declaration_3")
DeclarationErrorSite ==
    /\ At("p_decl_body")
    /\ clex.input \in {Redeclaration, RedeclarationInBlock}
    /\ DictGet(Last(_scope_stack), "T", FALSE)
ErrorSite == TokenErrorSite \/ SyntaxErrorSite \/ UnsupportedSite \/ DeclarationErrorSite

C11_Step ==
    /\ ErrorSite => pc' = "idle" /\ outcome'.k = "raised"
    /\ pc = "parsing" /\ pc' = "idle" /\ outcome'.k = "raised" =>
          /\ trace' = trace
          /\ clex'.pos = clex.pos
          /\ symstack' = << >>
          /\ counter' = counter /\ graph' = graph
    /\ pc = "idle" => calls' = calls + 1 /\ pc' = "parsing" /\ trace' = << >>
C11_NoAST ==
    Finished =>
        /\ outcome.k = "raised" => "ast" \notin DOMAIN outcome
        /\ outcome.k = "returned" => clex.pos > Len(clex.input)

\* C11: every error raised during a parse aborts it at once: the step at an
\* error site ends the call with the exception, the step that raises requests
\* no token and runs no reduction, nothing of the call runs after it, and a
\* call that returns an AST has read its whole text without an error.
C11_ErrorAbortsParse == []C11_NoAST /\ [][C11_Step]_vars

\* a syntax error left part of the text unread
C11_Witness ==
    /\ Finished /\ outcome.k = "raised"
    /\ outcome.exc.msg = "before: %s"
    /\ clex.pos <= Len(clex.input)

\* a Coord object of the parsed file with a line
IsCoordinate(c) == c.k = "Coord" /\ c.file = FileName /\ c.line \in Nat

\* C12: every error the parser raises carries a Coordinate (file, line,
\* optional column), whatever the error site: also the syntax error at the
\* end of the input and the 'Invalid declaration' error.
C12_EveryErrorCarriesCoordinate ==
    Finished /\ outcome.k = "raised" => IsCoordinate(outcome.exc.coord)

\* the directive and pragma tokens the lexer issued in this call
DirectiveTokens == {i \in 1..Len(trace) : trace[i].type \in {"PPHASH", "PPPRAGMA"}}
\* texts with a directive or a pragma where the grammar has a production for it
ConsumableDirectives ==
    {DirectiveAtFileLevel, PragmaAtFileLevel, PragmaStringAtFileLevel, PragmaInBody,
     PragmaStringInBody}

\* C13: a directive or pragma token that reaches the grammar where a production
\* can consume it (file level, or statement level in a function body) makes
\* the parse fail with the unsupported-construct error, and no call returns
\* an AST for a text with such a token.
C13_DirectivesAreRejected ==
    Finished =>
        /\ outcome.k = "returned" => DirectiveTokens = {}
        /\ clex.input \in ConsumableDirectives =>
              outcome.k = "raised" /\ outcome.exc.msg = "Directives not supported yet"

(***************************************************************************)
(* The scope tracker driven directly: any sequence of its operations on    *)
(* the stack of one parse.  outcome holds the last call and what it gave.  *)
(***************************************************************************)
ScopeNames == {"T", "x"}

Call(op, name, exc, value) ==
    [k |-> "call", op |-> op, name |-> name, exc |-> exc, value |-> value]

\* the tracker as parse leaves it before the first token
ScopeInit ==
    /\ _scope_stack = <<EmptyScope>>
    /\ _last_yielded_token = None
    /\ counter = 0 + Len(rules_with_opt)
    /\ tmp = -1
    /\ graph = [nodes |-> 0, edges |-> 0]
    /\ clex = [filename |-> FileName, input |-> << >>, pos |-> 1, lineno |-> 1,
               last_token |-> None]
    /\ symstack = << >>
    /\ lookahead = None
    /\ pc = "scopes"
    /\ outcome = None
    /\ trace = << >>
    /\ first = None
    /\ calls = 1
    /\ objects = NoObjects

TrackerOnly ==
    UNCHANGED << _last_yielded_token, counter, tmp, graph, clex, symstack, lookahead, pc,
                 trace, first, calls, objects >>

_lex_on_lbrace_func ==
    /\ pc = "scopes"
    /\ Len(_scope_stack) < MaxScopes
    /\ _scope_stack' = _push_scope(_scope_stack)
    /\ outcome' = Call("_push_scope", NoneName, None, None)
    /\ TrackerOnly

_lex_on_rbrace_func ==
    /\ pc = "scopes"
    /\ LET popped == _pop_scope(_scope_stack)
       IN  /\ _scope_stack' = popped.stack
           /\ outcome' = Call("_pop_scope", NoneName, popped.exc, None)
    /\ TrackerOnly

_lex_type_lookup_func(name) ==
    /\ pc = "scopes"
    /\ outcome' = Call("_is_type_in_scope", name, None, _is_type_in_scope(_scope_stack, name))
    /\ UNCHANGED _scope_stack
    /\ TrackerOnly

declare_typedef(name) ==
    /\ pc = "scopes"
    /\ LET added == _add_typedef_name(_scope_stack, name, _coord(1))
       IN  /\ _scope_stack' = added.stack
           /\ outcome' = Call("_add_typedef_name", name, added.exc, None)
    /\ TrackerOnly

declare_identifier(name) ==
    /\ pc = "scopes"
    /\ LET added == _add_identifier(_scope_stack, name, _coord(1))
       IN  /\ _scope_stack' = added.stack
           /\ outcome' = Call("_add_identifier", name, added.exc, None)
    /\ TrackerOnly

ScopeNext ==
    \/ _lex_on_lbrace_func
    \/ _lex_on_rbrace_func
    \/ \E name \in ScopeNames : _lex_type_lookup_func(name)
    \/ \E name \in ScopeNames : declare_typedef(name)
    \/ \E name \in ScopeNames : declare_identifier(name)

ScopeSpec == ScopeInit /\ [][ScopeNext]_vars

\* the call the last step made
Called(op) == outcome.k = "call" /\ outcome.op = op
Calling(op) == outcome'.k = "call" /\ outcome'.op = op
Failed == ~IsNone(outcome.exc)
Failing == ~IsNone(outcome'.exc)

C14_Step ==
    Calling("_pop_scope") =>
        IF Len(_scope_stack) = 1
        THEN outcome'.exc = PyError("AssertionError") /\ _scope_stack' = _scope_stack
        ELSE /\ ~Failing
             /\ _scope_stack' = SubSeq(_scope_stack, 1, Len(_scope_stack) - 1)

\* C14: the scope stack always holds at least one scope; pop_scope with exactly
\* one scope on the stack fails and leaves the stack as it is, and otherwise
\* removes the innermost scope and nothing else.
C14_AtLeastOneScope == [](Len(_scope_stack) >= 1) /\ [][C14_Step]_vars

\* pop_scope has just failed on the file scope, which holds names
C14_Witness ==
    /\ Called("_pop_scope") /\ Failed
    /\ Len(_scope_stack) = 1 /\ DOMAIN _scope_stack[1] = ScopeNames

\* the innermost scope maps name to v
InnermostMaps(name, v) ==
    name \in DOMAIN Last(_scope_stack) /\ Last(_scope_stack)[name] = v
\* a scope below the innermost one maps name to v
OuterMaps(name, v) ==
    \E i \in 1..(Len(_scope_stack) - 1) :
        name \in DOMAIN _scope_stack[i] /\ _scope_stack[i][name] = v

C15_Step ==
    /\ Calling("_add_typedef_name") =>
          /\ Failing <=> InnermostMaps(outcome'.name, FALSE)
          /\ Failing => outcome'.exc.k = "ParseError"
    /\ Calling("_add_identifier") =>
          /\ Failing <=> InnermostMaps(outcome'.name, TRUE)
          /\ Failing => outcome'.exc.k = "ParseError"
    /\ (Calling("_add_typedef_name") \/ Calling("_add_identifier")) /\ Failing =>
          _scope_stack' = _scope_stack

\* C15: add_typedef_name(name) fails with a declaration error exactly when the
\* innermost scope maps name to non-type, add_identifier(name) exactly when it
\* maps name to type; entries of outer scopes do not matter, and a failing
\* call leaves every scope as it was.
C15_FailsOnInnermostConflictOnly == [][C15_Step]_vars

\* a typedef name was added although an outer scope holds the name as an
\* identifier
C15_Witness ==
    /\ Called("_add_typedef_name") /\ ~Failed
    /\ OuterMaps(outcome.name, FALSE)
    /\ InnermostMaps(outcome.name, TRUE)

\* the classification of name in the innermost scope that has an entry for
\* it, FALSE when no scope has one
Visible(stack, name) ==
    LET S == {i \in 1..Len(stack) : name \in DOMAIN stack[i]}
    IN  S # {} /\ stack[SetMax(S)][name]

\* C16: is_type_in_scope(name) is the classification stored in the innermost
\* scope that has an entry for name, and false when no scope has one.
C16_InnermostEntryDecides ==
    /\ \A name \in ScopeNames :
          _is_type_in_scope(_scope_stack, name) = Visible(_scope_stack, name)
    /\ Called("_is_type_in_scope") =>
          outcome.value = Visible(_scope_stack, outcome.name)

\* the lookup said non-type for a name that is a typedef in an outer scope
C16_Witness ==
    /\ Called("_is_type_in_scope") /\ outcome.value = FALSE
    /\ OuterMaps(outcome.name, TRUE)
    /\ InnermostMaps(outcome.name, FALSE)

C17_Step ==
    LET n == Len(_scope_stack)
        kept == IF Len(_scope_stack') < n THEN Len(_scope_stack') ELSE n
    IN  /\ \A i \in 1..kept : \A name \in DOMAIN _scope_stack[i] :
              /\ name \in DOMAIN _scope_stack'[i]
              /\ _scope_stack'[i][name] = _scope_stack[i][name]
        /\ \A i \in 1..kept : i < n => _scope_stack'[i] = _scope_stack[i]
        /\ Len(_scope_stack') > n =>
              Len(_scope_stack') = n + 1 /\ Last(_scope_stack') = EmptyScope
        /\ Len(_scope_stack') >= n - 1

\* C17: a name keeps the classification it has in a scope for as long as the
\* scope is on the stack; entries are added to the innermost scope only and
\* leave the stack only with their scope.
C17_ClassificationIsStable == [][C17_Step]_vars

\* an identifier was declared again in a scope that holds both names, above a
\* scope that classifies it the other way
C17_Witness ==
    /\ Called("_add_identifier") /\ ~Failed
    /\ DOMAIN Last(_scope_stack) = ScopeNames
    /\ OuterMaps(outcome.name, TRUE)

(***************************************************************************)
(* Properties of the scopes during a parse.                                *)
(***************************************************************************)
\* the tokens of kind type the lexer issued in this call
Issued(type) == Cardinality({i \in 1..Len(trace) : trace[i].type = type})
\* this step issues a token of kind type
Issuing(type) == Len(trace') = Len(trace) + 1 /\ trace'[Len(trace')].type = type

C18_Depth == Len(_scope_stack) = 1 + Issued("LBRACE") - Issued("RBRACE")
C18_Step ==
    /\ Issuing("LBRACE") =>
          /\ _scope_stack' = Append(_scope_stack, EmptyScope)
          /\ lookahead'.type = "LBRACE" /\ symstack' = symstack
    /\ Issuing("RBRACE") =>
          /\ _scope_stack' = SubSeq(_scope_stack, 1, Len(_scope_stack) - 1)
          /\ lookahead'.type = "RBRACE" /\ symstack' = symstack
    /\ pc = "parsing" /\ ~Issuing("LBRACE") /\ ~Issuing("RBRACE") =>
          Len(_scope_stack') = Len(_scope_stack)

\* C18: the step that issues a '{' (a '}') token is the step that pushes (pops)
\* a scope, once, with the brace becoming the lookahead and before any
\* reduction sees it; no other step of a parse changes the depth of the scope
\* stack, which is 1 + the '{' issued - the '}' issued at every point.
C18_DepthFollowsBraces == []C18_Depth /\ [][C18_Step]_vars

\* the closing brace of a function body is the lookahead and its scope is gone
C18_Witness ==
    /\ pc = "parsing" /\ ~IsNone(lookahead) /\ lookahead.type = "RBRACE"
    /\ Issued("LBRACE") = 1 /\ Issued("RBRACE") = 1
    /\ Len(_scope_stack) = 1

\* the names of the parameters before an ellipsis
ParamNames(params) ==
    LET ellipses == {i \in 1..Len(params) : params[i].k = "EllipsisParam"}
        n == IF ellipses = {} THEN Len(params) ELSE SetMin(ellipses) - 1
    IN  {params[i].name : i \in 1..n}

C19_Step ==
    At("p_direct_declarator_6") =>
        LET named == IF IsNone(P(4, 3)) THEN {} ELSE ParamNames(P(4, 3).params)
        IN  IF lookahead.type = "LBRACE"
            THEN /\ pc' = "parsing"
                 /\ \A name \in named :
                       /\ name \in DOMAIN Last(_scope_stack')
                       /\ ~Last(_scope_stack')[name]
                 /\ DOMAIN Last(_scope_stack') = DOMAIN Last(_scope_stack) \cup named
                 /\ Front(_scope_stack') = Front(_scope_stack)
                 /\ lookahead' = lookahead /\ trace' = trace
                 /\ trace[Len(trace)].type = "LBRACE"
                 /\ symstack'[Len(symstack')].sym = "direct_declarator"
            ELSE _scope_stack' = _scope_stack

\* C19: the reduction to a function declarator with '{' as lookahead registers
\* every parameter before an ellipsis as an ordinary identifier in the
\* innermost scope (the one on the stack since the lexer recognised the
\* brace), while the brace is still the unshifted lookahead and the last token
\* issued, so before any token of the body is classified; with any other
\* lookahead the reduction leaves the scopes alone.
C19_ParametersRegisteredAtBrace == [][C19_Step]_vars

\* both parameters are registered, the brace is still the lookahead, and the
\* typedef of the file scope is untouched
C19_Witness ==
    /\ pc = "parsing" /\ clex.input = TypedParameters
    /\ Sym(1) = "direct_declarator" /\ ~IsNone(lookahead) /\ lookahead.type = "LBRACE"
    /\ Len(_scope_stack) = 2
    /\ _scope_stack[2] = [name \in {"a", "b"} |-> FALSE]
    /\ _scope_stack[1] = [name \in {"T"} |-> TRUE]

\* the call returned an AST
Succeeded == Finished /\ outcome.k = "returned"
\* the parse call has begun and no token was asked for yet
Begun == pc = "parsing" /\ trace = << >>

\* C20 as stated: the scope stack starts each parse as a single empty scope,
\* and when a parse completes successfully the stack is one scope again and
\* that scope is empty.
C20_StartsAndEndsWithOneEmptyScope ==
    /\ Begun => _scope_stack = <<EmptyScope>>
    /\ Succeeded => _scope_stack = <<EmptyScope>>

\* what the file scope has to say about the external declaration d
RegisteredAtFileLevel(d) ==
    LET scope == _scope_stack[1]
    IN  CASE d.k = "Typedef" -> d.name \in DOMAIN scope /\ scope[d.name]
          [] d.k = "Decl" -> d.name \in DOMAIN scope /\ ~scope[d.name]
          [] d.k = "FuncDef" -> d.decl.name \in DOMAIN scope /\ ~scope[d.decl.name]
          [] OTHER -> TRUE

\* C20 (amended): the scope stack starts each parse as a single empty scope,
\* and when a parse completes successfully the stack is one scope again, the
\* file scope, which still holds every name the text declares at file level
\* with its classification; it is empty only when the text declares nothing.
C20_EndsWithTheFileScope ==
    /\ Begun => _scope_stack = <<EmptyScope>>
    /\ Succeeded =>
          /\ Len(_scope_stack) = 1
          /\ \A i \in 1..Len(outcome.ast.ext) : RegisteredAtFileLevel(outcome.ast.ext[i])
          /\ _scope_stack[1] = EmptyScope <=> outcome.ast.ext = << >>

\* a text with a block was parsed; the scope of the block is gone, the
\* function and the two other file-level names are left
C20_Witness ==
    /\ Succeeded /\ clex.input = Shadowing
    /\ Issued("LBRACE") = 1 /\ Issued("RBRACE") = 1
    /\ _scope_stack = <<[name \in {"f", "T", "v"} |-> name = "T"]>>

(***************************************************************************)
(* Declarators built in place.  _type_modify_decl and p_pointer assign to  *)
(* the `type` attribute of nodes they were handed, so the nodes are kept   *)
(* as objects here: objects.node[id] is the node with identity id, its     *)
(* type attribute the identity of another node, 0 for None.  objects.decl  *)
(* is the declarator so far, objects.pointer the value of the pointer      *)
(* symbol not yet consumed (0: none), objects.spliced the history of the   *)
(* modifier nodes handed to _type_modify_decl.                             *)
(***************************************************************************)
DeclaredName == "x"

\* node.type = x, for the node with identity id
SetType(node, id, x) == [node EXCEPT ![id].type = x]

\* `while tail.type: tail = tail.type`, from the node with identity id
RECURSIVE TailOf(_, _)
TailOf(node, id) == IF node[id].type = 0 THEN id ELSE TailOf(node, node[id].type)

\* `while not isinstance(decl_tail.type, c_ast.TypeDecl): decl_tail = decl_tail.type`
RECURSIVE DeclTailOf(_, _)
DeclTailOf(node, id) ==
    IF node[node[id].type].k = "TypeDecl" THEN id ELSE DeclTailOf(node, node[id].type)

\* the identities met from the node with identity id along the type
\* attributes, at most fuel of them
RECURSIVE Follow(_, _, _)
Follow(node, id, fuel) ==
    IF id = 0 \/ fuel = 0 THEN << >>
    ELSE <<id>> \o Follow(node, node[id].type, fuel - 1)
\* one identity more than there are nodes when the walk runs into a cycle
ChainFrom(id) == Follow(objects.node, id, Len(objects.node) + 1)

\* a variant that hangs the declarator itself below the modifier
_type_modify_decl_onto_decl(node, decl, modifier) ==
    LET modifier_tail == TailOf(node, modifier)
    IN  IF node[decl].k = "TypeDecl"
        THEN [node |-> SetType(node, modifier_tail, decl), ret |-> modifier]
        ELSE LET decl_tail == DeclTailOf(node, decl)
                 tacked == SetType(node, modifier_tail, decl)
             IN  [node |-> SetType(tacked, decl_tail, modifier), ret |-> decl]

\* _type_modify_decl on objects: the nodes after the call and the identity
\* of the node it returns
_type_modify_decl_in_place(node, decl, modifier) ==
    LET modifier_tail == TailOf(node, modifier)
    IN  IF node[decl].k = "TypeDecl"
        THEN [node |-> SetType(node, modifier_tail, decl), ret |-> modifier]
        ELSE LET decl_tail == DeclTailOf(node, decl)
                 tacked == SetType(node, modifier_tail, node[decl_tail].type)
             IN  [node |-> SetType(tacked, decl_tail, modifier), ret |-> decl]

DeclaratorInit ==
    /\ _scope_stack = <<EmptyScope>>
    /\ _last_yielded_token = None
    /\ counter = 0 + Len(rules_with_opt)
    /\ tmp = -1
    /\ graph = [nodes |-> 0, edges |-> 0]
    /\ clex = [filename |-> FileName, input |-> << >>, pos |-> 1, lineno |-> 1,
               last_token |-> None]
    /\ symstack = << >>
    /\ lookahead = None
    /\ pc = "declarator"
    /\ outcome = None
    /\ trace = << >>
    /\ first = None
    /\ calls = 1
    /\ objects = [node |-> <<[k |-> "TypeDecl", declname |-> DeclaredName, type |-> 0]>>,
                  decl |-> 1, pointer |-> 0, spliced |-> {}]

ObjectsOnly ==
    UNCHANGED << _scope_stack, _last_yielded_token, counter, tmp, graph, clex, symstack,
                 lookahead, pc, outcome, trace, first, calls >>

\* one more node: c_ast.PtrDecl(type=None), ArrayDecl(type=None), FuncDecl(type=None)
Constructed(kind) == Append(objects.node, [k |-> kind, declname |-> NoneName, type |-> 0])

\* pointer : TIMES type_qualifier_list_opt
pointer_1 ==
    /\ pc = "declarator"
    /\ objects.pointer = 0
    /\ Len(objects.node) < MaxNodes
    /\ LET nested_type == Len(objects.node) + 1
       IN  objects' = [objects EXCEPT !.node = Constructed("PtrDecl"),
                                      !.pointer = nested_type]
    /\ ObjectsOnly

\* pointer : TIMES type_qualifier_list_opt pointer
pointer_2 ==
    /\ pc = "declarator"
    /\ objects.pointer # 0
    /\ Len(objects.node) < MaxNodes
    /\ LET nested_type == Len(objects.node) + 1
           tail_type == TailOf(objects.node, objects.pointer)
       IN  objects' = [objects EXCEPT
                          !.node = SetType(Constructed("PtrDecl"), tail_type, nested_type)]
    /\ ObjectsOnly

\* declarator : pointer direct_declarator
declarator_2 ==
    /\ pc = "declarator"
    /\ objects.pointer # 0
    /\ LET modified == _type_modify_decl_in_place(objects.node, objects.decl,
                                                  objects.pointer)
       IN  objects' = [node |-> modified.node, decl |-> modified.ret, pointer |-> 0,
                       spliced |-> objects.spliced \cup
                                      {ChainFrom(objects.pointer)[i] :
                                          i \in 1..Len(ChainFrom(objects.pointer))}]
    /\ ObjectsOnly

\* direct_declarator : direct_declarator LBRACKET ... RBRACKET  (kind ArrayDecl)
\*                   | direct_declarator LPAREN ... RPAREN      (kind FuncDecl)
direct_declarator_suffix(kind) ==
    /\ pc = "declarator"
    /\ Len(objects.node) < MaxNodes
    /\ LET modifier == Len(objects.node) + 1
           modified == _type_modify_decl_in_place(Constructed(kind), objects.decl, modifier)
       IN  objects' = [objects EXCEPT !.node = modified.node, !.decl = modified.ret,
                                      !.spliced = @ \cup {modifier}]
    /\ ObjectsOnly

DeclaratorNext ==
    \/ pointer_1
    \/ pointer_2
    \/ declarator_2
    \/ \E kind \in {"ArrayDecl", "FuncDecl"} : direct_declarator_suffix(kind)

DeclaratorSpec == DeclaratorInit /\ [][DeclaratorNext]_vars

\* C21: whatever pointer chains are built and spliced into a declarator that
\* started as one TypeDecl, the declarator is a finite chain without a cycle:
\* no node is met twice, the nodes before its end are exactly the modifier
\* nodes that were spliced in, and its end is the one TypeDecl it started
\* from, still carrying the declared name.
C21_ChainKeepsEveryNodeOnce ==
    LET chain == ChainFrom(objects.decl)
        n == Len(chain)
    IN  pc = "declarator" =>
          /\ n >= 1 /\ n <= Len(objects.node)
          /\ \A i, j \in 1..n : chain[i] = chain[j] => i = j
          /\ {chain[i] : i \in 1..(n - 1)} = objects.spliced
          /\ chain[n] = 1
          /\ objects.node[1] = [k |-> "TypeDecl", declname |-> DeclaredName, type |-> 0]
          /\ \A i \in 1..(n - 1) : objects.node[chain[i]].k # "TypeDecl"

\* a chain of two pointers and both kinds of suffix were spliced in
C21_Witness ==
    /\ pc = "declarator"
    /\ Len(ChainFrom(objects.decl)) = 5
    /\ objects.pointer = 0
    /\ \E i, j \in objects.spliced :
          /\ objects.node[i].k = "PtrDecl" /\ objects.node[j].k = "PtrDecl"
          /\ objects.node[i].type = j
    /\ \E i \in objects.spliced : objects.node[i].k = "ArrayDecl"
    /\ \E i \in objects.spliced : objects.node[i].k = "FuncDecl"

(***************************************************************************)
(* The declaration builder driven directly.  One declaration is put         *)
(* together as the productions do it: the specifiers are reduced from the  *)
(* last one written to the first, each through _add_declaration_specifier, *)
(* and the accumulated dictionary is then handed to _build_declarations or *)
(* _build_function_definition with a list of declarators.  symstack holds  *)
(* the dictionary, trace the specifiers in the order they are written,     *)
(* outcome the call that ended the declaration.                            *)
(***************************************************************************)
BasicTypes == {"int", "long", "unsigned"}
TypeSpecifiers ==
    {IdentifierType(<<n>>, _coord(1)) : n \in BasicTypes \cup {"T"}}
        \cup {Struct("S", None, _coord(1)), Union("S", None, _coord(1)),
              Enum("E", None, _coord(1))}
\* the specifiers a declaration can be given, with the key they are filed under
Specifiers ==
    {[kind |-> "type", spec |-> t] : t \in TypeSpecifiers}
        \cup {[kind |-> "qual", spec |-> Str("const")],
              [kind |-> "storage", spec |-> Str("typedef")],
              [kind |-> "storage", spec |-> Str("static")],
              [kind |-> "function", spec |-> Str("inline")]}

\* declarators as the declarator productions leave them: the TypeDecl that
\* carries the name below its modifiers; no name in an abstract declarator
Declarators ==
    LET named(n) == TypeDecl(n, None, None, _coord(2))
    IN  {named("x"), named("T"),
         PtrDecl(<< >>, named("x"), _coord(2)),
         ArrayDecl(named("x"), None, << >>, _coord(2), None),
         FuncDecl(None, named("f"), _coord(2)),
         PtrDecl(<< >>, FuncDecl(None, named("f"), _coord(2)), _coord(2)),
         FuncDecl(None, PtrDecl(<< >>, named("f"), _coord(2)), _coord(2)),
         ArrayDecl(named(NoneName), None, << >>, _coord(2), None)}
\* the lists of declarators _build_declarations is called with: the values of
\* init_declarator_list (which end in a graph reference) and the lists the
\* productions write out
DeclaratorLists ==
    {<<DeclDict(d, None, None), NodeRef(0)>> : d \in Declarators}
        \cup {<<DeclDict(None, None, None)>>}
        \cup {<<DeclDict(TypeDecl("x", None, None, _coord(2)), None, None),
                DeclDict(TypeDecl(n, None, None, _coord(3)), None, None), NodeRef(0)>> :
                 n \in {"x", "y"}}

\* the scope stacks the declaration is built under
ScopeStacks ==
    {<<EmptyScope>>, <<("T" :> TRUE), EmptyScope>>, <<("T" :> TRUE), ("x" :> TRUE)>>}

Built(op, spec, decls, typedef_namespace, b) ==
    [k |-> "built", op |-> op, spec |-> spec, decls |-> decls,
     typedef_namespace |-> typedef_namespace, exc |-> b.exc, value |-> b.value,
     scopes |-> _scope_stack]

BuilderInit ==
    /\ _scope_stack \in ScopeStacks
    /\ _last_yielded_token = None
    /\ counter = 0 + Len(rules_with_opt)
    /\ tmp = -1
    /\ graph = [nodes |-> 0, edges |-> 0]
    /\ clex = [filename |-> FileName, input |-> << >>, pos |-> 1, lineno |-> 1,
               last_token |-> None]
    /\ symstack = <<Entry("declaration_specifiers_opt", None, 0)>>
    /\ lookahead = None
    /\ pc = "builder"
    /\ outcome = None
    /\ trace = << >>
    /\ first = None
    /\ calls = 1
    /\ objects = NoObjects

BuilderOnly ==
    UNCHANGED << _last_yielded_token, counter, tmp, graph, clex, lookahead, pc, first,
                 calls, objects >>

\* declaration_specifiers : <specifier> declaration_specifiers_opt, for the
\* specifier written in front of those accumulated so far
declaration_specifiers(s) ==
    /\ pc = "builder"
    /\ IsNone(outcome)
    /\ Len(trace) < MaxSpecifiers
    /\ symstack' = <<Entry("declaration_specifiers",
                           _add_declaration_specifier(P(1, 1), s.spec, s.kind), 0)>>
    /\ trace' = <<s>> \o trace
    /\ UNCHANGED << _scope_stack, outcome >>
    /\ BuilderOnly

\* decl_body, struct_declaration, parameter_declaration: the call of
\* _build_declarations that ends the declaration
build_declarations(decls, typedef_namespace) ==
    /\ pc = "builder"
    /\ IsNone(outcome)
    /\ ~IsNone(P(1, 1))
    /\ LET b == _build_declarations(_scope_stack, P(1, 1), decls, typedef_namespace)
       IN  /\ _scope_stack' = b.stack
           /\ outcome' = Built("_build_declarations", P(1, 1), decls, typedef_namespace,
                               [exc |-> b.exc, value |-> List(b.declarations)])
    /\ UNCHANGED << symstack, trace >>
    /\ BuilderOnly

\* function_definition : declaration_specifiers declarator ... compound_statement
build_function_definition(decl) ==
    /\ pc = "builder"
    /\ IsNone(outcome)
    /\ ~IsNone(P(1, 1))
    /\ LET b == _build_function_definition(_scope_stack, P(1, 1), decl, None,
                                           Compound(None, _coord(3)))
       IN  /\ _scope_stack' = b.stack
           /\ outcome' = Built("_build_function_definition", P(1, 1),
                               <<DeclDict(decl, None, None)>>, TRUE,
                               [exc |-> b.exc, value |-> b.node])
    /\ UNCHANGED << symstack, trace >>
    /\ BuilderOnly

BuilderNext ==
    \/ \E s \in Specifiers : declaration_specifiers(s)
    \/ \E decls \in DeclaratorLists, typedef_namespace \in BOOLEAN :
          build_declarations(decls, typedef_namespace)
    \/ \E decl \in {d \in Declarators : d.k = "FuncDecl"} : build_function_definition(decl)

BuilderSpec == BuilderInit /\ [][BuilderNext]_vars

\* the call that ended the declaration, when it was one of op
BuiltBy(op) == outcome.k = "built" /\ outcome.op = op
\* the first declarator handed over carries a name, so that the specifiers
\* reach _fix_decl_name_type as they were accumulated
FirstIsNamed ==
    /\ ~IsNone(outcome.decls[1].decl)
    /\ UnderlyingTypeDecl(outcome.decls[1].decl).declname # NoneName
\* the base type of the i-th declaration built
BaseType(i) == UnderlyingTypeDecl(outcome.value.items[i].type).type
\* a type specifier that is no basic-type keyword
IsTypedefName(t) == t.k = "IdentifierType" /\ t.names[1] \notin BasicTypes
NotBasic(t) == t.k \in {"Struct", "Union", "Enum"} \/ IsTypedefName(t)

\* C22: when the specifier type list holds a Struct, a Union, an Enum or a
\* typedef-name reference, that entry becomes the base type if it is the
\* only entry, and the declaration fails with 'Invalid multiple types
\* specified' if another type specifier comes with it.
C22_NonBasicTypeStandsAlone ==
    (BuiltBy("_build_declarations") /\ FirstIsNamed) =>
        LET ty == outcome.spec.type
        IN  (\E i \in 1..Len(ty) : NotBasic(ty[i])) =>
               IF Len(ty) = 1
               THEN IsNone(outcome.exc) =>
                       /\ BaseType(1).k = ty[1].k
                       /\ ty[1].k = "IdentifierType" => BaseType(1).names = ty[1].names
                       /\ ty[1].k # "IdentifierType" => BaseType(1) = ty[1]
               ELSE /\ outcome.exc.k = "ParseError"
                    /\ outcome.exc.msg = "Invalid multiple types specified"

\* the first declarator handed over is an abstract declarator
FirstIsAbstract ==
    /\ ~IsNone(outcome.decls[1].decl)
    /\ UnderlyingTypeDecl(outcome.decls[1].decl).declname = NoneName
\* the specifier type list with which _fix_decl_name_type is reached for
\* the first declarator
ReachingTypes ==
    IF FirstIsAbstract \/ IsNone(outcome.decls[1].decl)
    THEN Front(outcome.spec.type) ELSE outcome.spec.type
\* _fix_decl_name_type is reached for the first declarator
FixReached ==
    /\ outcome.k = "built"
    /\ outcome.exc.k \notin {"AssertionError", "AttributeError", "IndexError"}
    /\ IsNone(outcome.exc) \/ outcome.exc.msg # "Invalid declaration"
MissingType ==
    outcome.exc.k = "ParseError" /\ outcome.exc.msg = "Missing type in declaration"
\* the declaration built for the first declarator, once the call returned
FirstBuilt ==
    IF outcome.op = "_build_function_definition" THEN outcome.value.decl
    ELSE outcome.value.items[1]

\* C23: when _fix_decl_name_type is reached with an empty specifier type
\* list, a declaration whose outermost type node is a FuncDecl gets the base
\* type IdentifierType(['int']); every other declaration fails with 'Missing
\* type in declaration' and nothing is built.
C23_OnlyFunctionsDefaultToInt ==
    (FixReached /\ ReachingTypes = << >>) =>
        IF outcome.decls[1].decl.k = "FuncDecl"
        THEN /\ ~MissingType
             /\ IsNone(outcome.exc) =>
                   UnderlyingTypeDecl(FirstBuilt.type).type
                      = IdentifierType(<<"int">>, outcome.decls[1].decl.coord)
        ELSE /\ MissingType
             /\ outcome.value \in {None, List(<< >>)}

\* `static f();` was built: no type specifier, the function returns int
C23_Witness ==
    /\ BuiltBy("_build_declarations")
    /\ outcome.spec.type = << >>
    /\ outcome.spec.storage = <<Str("static")>>
    /\ outcome.decls[1].decl.k = "FuncDecl"
    /\ IsNone(outcome.exc)
    /\ outcome.value.items[1].name = "f"
    /\ UnderlyingTypeDecl(outcome.value.items[1].type).type.names = <<"int">>

\* the specifiers of one kind, in the order they are written
Written(kind) ==
    LET of == SelectSeq(trace, LAMBDA s : s.kind = kind)
    IN  [i \in 1..Len(of) |-> of[i].spec]
\* the type specifiers written are basic-type keywords, at least one
OnlyBasicTypes ==
    /\ Written("type") # << >>
    /\ \A i \in 1..Len(Written("type")) :
          /\ Written("type")[i].k = "IdentifierType"
          /\ Written("type")[i].names[1] \in BasicTypes

\* C24: each of the accumulator's four lists holds the specifiers of its
\* kind as they are written, every one once and in source order; and a
\* declaration whose type specifiers are all basic-type keywords gets an
\* IdentifierType whose names are those keywords in source order.
C24_SpecifiersKeepSourceOrder ==
    pc = "builder" =>
        /\ ~IsNone(P(1, 1)) =>
              \A kind \in {"qual", "storage", "type", "function"} :
                 P(1, 1)[kind] = Written(kind)
        /\ (outcome.k = "built" /\ IsNone(outcome.exc) /\ FirstIsNamed /\ OnlyBasicTypes) =>
              UnderlyingTypeDecl(FirstBuilt.type).type.names
                 = [i \in 1..Len(Written("type")) |-> Written("type")[i].names[1]]

\* `unsigned long int x` was built
C24_Witness ==
    /\ BuiltBy("_build_declarations")
    /\ IsNone(outcome.exc)
    /\ Len(trace) = 3
    /\ outcome.spec.type = <<IdentifierType(<<"unsigned">>, _coord(1)),
                             IdentifierType(<<"long">>, _coord(1)),
                             IdentifierType(<<"int">>, _coord(1))>>
    /\ outcome.value.items[1].name = "x"
    /\ outcome.value.items[1].type.k = "TypeDecl"
    /\ outcome.value.items[1].type.type.names = <<"unsigned", "long", "int">>

\* the declarations a returned call built, and the declarators it was given
BuiltDeclarations ==
    IF outcome.op = "_build_function_definition" THEN <<outcome.value.decl>>
    ELSE outcome.value.items
GivenDeclarators == SelectSeq(outcome.decls, LAMBDA d : ~HasNodeMark(d))

\* C25: a declaration built inside the typedef namespace (an ordinary
\* declaration, a function definition) builds one node for every declarator
\* and registers its name in the innermost scope, and nowhere else: as a
\* typedef name, the node being a Typedef, exactly when the storage list
\* contains typedef; as an identifier, the node being a Decl, otherwise.
C25_EveryDeclaratorIsRegisteredOnce ==
    (outcome.k = "built" /\ outcome.typedef_namespace /\ IsNone(outcome.exc)) =>
        LET ds == BuiltDeclarations
            before == outcome.scopes
            is_typedef == InList(Str("typedef"), outcome.spec.storage)
            names == {ds[i].name : i \in 1..Len(ds)}
        IN  /\ Len(ds) = Len(GivenDeclarators)
            /\ \A i \in 1..Len(ds) :
                  /\ ds[i].k = IF is_typedef THEN "Typedef" ELSE "Decl"
                  /\ ds[i].name = UnderlyingTypeDecl(ds[i].type).declname
                  /\ ds[i].name # NoneName
                  /\ ~IsNone(GivenDeclarators[i].decl) =>
                        UnderlyingTypeDecl(GivenDeclarators[i].decl).declname
                           \in {ds[i].name, NoneName}
            /\ Len(_scope_stack) = Len(before)
            /\ Front(_scope_stack) = Front(before)
            /\ DOMAIN Last(_scope_stack) = DOMAIN Last(before) \cup names
            /\ \A n \in DOMAIN Last(_scope_stack) :
                  Last(_scope_stack)[n] = IF n \in names THEN is_typedef
                                          ELSE Last(before)[n]

\* `typedef int x, y;` was built in a block: both names are typedef names of
\* the block's scope, the file scope is as it was
C25_Witness ==
    /\ BuiltBy("_build_declarations")
    /\ outcome.typedef_namespace
    /\ IsNone(outcome.exc)
    /\ outcome.spec.storage = <<Str("typedef")>>
    /\ outcome.scopes = <<("T" :> TRUE), EmptyScope>>
    /\ Len(outcome.value.items) = 2
    /\ \A i \in 1..2 : outcome.value.items[i].k = "Typedef"
    /\ _scope_stack = <<("T" :> TRUE), [n \in {"x", "y"} |-> TRUE]>>

(***************************************************************************)
(* Declarations without a declarator of their own.                         *)
(***************************************************************************)
\* the first block item of the function that follows `typedef int T;`
FirstBlockItem == outcome.ast.ext[3].body.block_items.items[1]
InvalidDeclaration ==
    /\ outcome.k = "raised"
    /\ outcome.exc.k = "ParseError"
    /\ outcome.exc.msg = "Invalid declaration"

\* C26: a declaration whose first declarator slot is empty, with or without
\* `= initializer`, is built around a TypeDecl named after the last type
\* specifier when there are at least two type specifiers and the last one is
\* a lone name registered as a type (`int T;` and `int T = a;` in a block,
\* T a typedef name of the file), the initializer being kept; in every other
\* case (`int ;`, `typedef ;`) it fails with a declaration error.
C26_EmptySlotIsRepairedOrRejected ==
    Finished =>
        /\ clex.input \in {Shadowing, ShadowingInitialized} =>
              /\ Succeeded
              /\ FirstBlockItem.k = "Decl"
              /\ FirstBlockItem.name = "T"
              /\ FirstBlockItem.type.type.names = <<"int">>
              /\ clex.input = ShadowingInitialized => ~IsNone(FirstBlockItem.init)
        /\ clex.input \in {NoDeclarator, NothingDeclared} => InvalidDeclaration

\* C27: when the first declarator of a declaration is an abstract declarator
\* (`typedef int T[];` given a second time: T went to the specifiers and
\* `[]` is all that is left), its TypeDecl is named after the trailing type
\* specifier, which leaves the specifier type list: the declaration built is
\* named T and its base type comes from the remaining specifiers.
C27_AbstractDeclaratorIsNamed ==
    (Finished /\ clex.input = DuplicateArrayTypedef) =>
        /\ Succeeded
        /\ LET again == outcome.ast.ext[3]
           IN  /\ again.k = "Typedef"
               /\ again.name = "T"
               /\ Kinds(again.type) = <<"ArrayDecl", "TypeDecl">>
               /\ UnderlyingTypeDecl(again.type).declname = "T"
               /\ UnderlyingTypeDecl(again.type).type.names = <<"int">>

\* C28: a call of _build_declarations outside the typedef namespace (struct
\* and union members, parameters) leaves the scope stack as it found it,
\* whether it returns declarations or raises.
C28_MembersAndParametersAreNotRegistered ==
    (BuiltBy("_build_declarations") /\ ~outcome.typedef_namespace) =>
        _scope_stack = outcome.scopes

\* `typedef int T;` was built outside the typedef namespace in a scope that
\* knows no T: a Typedef node is returned, the scope stays empty
C28_Witness ==
    /\ BuiltBy("_build_declarations")
    /\ ~outcome.typedef_namespace
    /\ IsNone(outcome.exc)
    /\ outcome.value.items[1].k = "Typedef"
    /\ outcome.value.items[1].name = "T"
    /\ _scope_stack = <<EmptyScope>>

(***************************************************************************)
(* Enumerators and the scope their list is written in.                     *)
(***************************************************************************)
\* the number of symbols of the enumerator about to be reduced
EnumeratorSymbols == IF Sym(1) = "constant_expression" THEN 3 ELSE 1
\* the enumerator about to be reduced follows others of its list
FollowsEnumerators ==
    /\ At("p_enumerator")
    /\ Sym(EnumeratorSymbols + 1) = "COMMA"
    /\ Sym(EnumeratorSymbols + 2) = "enumerator_list"
\* the first enumerator of the list the enumerator about to be reduced is in
FirstEnumerator == P(EnumeratorSymbols + 2, 1).enumerators[1]

\* C29 as stated: all enumerators of one brace-enclosed list are registered
\* in one and the same scope: the scope table that receives an enumerator
\* which follows others of its list holds the first enumerator of that list.
C29_EnumeratorsShareOneScope ==
    [][FollowsEnumerators => FirstEnumerator.name \in DOMAIN Last(_scope_stack')]_vars

(***************************************************************************)
(* The value of a type-qualifier list.                                     *)
(***************************************************************************)
\* the lexemes of the tokens the engine has shifted
ShiftedText ==
    SubSeq(clex.input, 1, clex.pos - (IF IsNone(lookahead) THEN 1 ELSE 2))
\* the qualifier keywords at the end of a text
RECURSIVE TrailingQualifiers(_)
TrailingQualifiers(text) ==
    IF text = << >> \/ Last(text) \notin {"const", "volatile"} THEN << >>
    ELSE Append(TrailingQualifiers(Front(text)), Last(text))
\* a non-empty type-qualifier list, or its optional form, is on top of the stack
QualifierListOnTop ==
    /\ pc = "parsing"
    /\ Sym(1) \in {"type_qualifier_list", "type_qualifier_list_opt"}
    /\ ~IsNone(P(1, 1))
    /\ TrailingQualifiers(ShiftedText) # << >>

\* C30 as stated: the value of the type_qualifier_list rule, and the value the
\* consuming rule sees through type_qualifier_list_opt, holds exactly the
\* qualifier keywords that were written, once each, in source order.
C30_QualifierListHoldsWhatWasWritten ==
    QualifierListOnTop => P(1, 1).items = Spelled(TrailingQualifiers(ShiftedText))

====
